---- MODULE Spec2Model ----
(***************************************************************************)
(* Model of the batching layer of the graph toolkit: the Batch request     *)
(* engine (packages/mgt-element/src/utils/Batch.ts, here                   *)
(* src/unnamed/part_010) and the accessors that issue their requests       *)
(* through it.                                                             *)
(*                                                                         *)
(* JavaScript values are modelled as tagged records, [type |-> "string",   *)
(* value |-> s], [type |-> "object", value |-> s] and [type |->            *)
(* "undefined"], so that typeof tests and missing header keys are          *)
(* computed, not assumed.  allRequests is 0-indexed in the source and      *)
(* 1-indexed here: Req(i) is allRequests[i] of the source.                 *)
(*                                                                         *)
(* Environment.  A Batch is owned by one logical task (spec.md section 5), *)
(* which awaits each executeNext()/executeAll() before it starts the next  *)
(* one; get() is synchronous and may run at any suspension point.  The     *)
(* batch endpoint answers every sub-request of a composite request exactly *)
(* once, in the order sent or in the reverse order.                        *)
(***************************************************************************)
EXTENDS Integers, Sequences, FiniteSets, TLC

VARIABLES
  \* ---- fields of a Batch (part_010:28-35)
  allRequests,      \* BatchRequest[]: every request ever added
  requestsQueue,    \* number[]: indices of the pending requests
  scopes,           \* string[]: accumulated scopes
  retryAfter,       \* number: seconds to wait before the next round
  nextIndex,        \* number: index given to the next request
  \* ---- positions of the owner task and of its executeNext() call
  pc,               \* "idle" | "next" (awaits executeNext) | "all" (in executeAll)
  epc,              \* executeNext: "none" | "delay" (in delay()) | "post" (in post())
  timerMs,          \* argument of the delay() this executeNext awaited (0: none)
  posted,           \* sub-requests of the composite request in flight
  responsesAll,     \* executeAll's local `responses`
  \* ---- history (not read by the program)
  ret,              \* what the latest step gave the caller of a call that ended in it
  fate,             \* per request: "pending" (never answered) | "throttled"
                    \* (last answer 429) | "ok" (200) | "dropped" (another
                    \* status) | "lost" (its transport call rejected)
  owed,             \* per request: Retry-After seconds of its last 429, 0 if none
  used,             \* what the environment has spent of its bounds
  hist,             \* the current (or last) execute call: the requests pending
                    \* when it began or added during it (mine), its transport
                    \* calls (posts), what the transport rejected with in the
                    \* latest step (rejectedWith)
  \* ---- the accessor call that owns the Batch, if one does
  accessorRun,      \* its name, position, the requests it issued one by one,
                    \* and what it gave its caller
  \* ---- the page iterators (part_008) and the endpoint they page through
  iterators,        \* per iterator: whether it was made, _value, _nextLink, _version
  inflight,         \* per iterator: the request its next() awaits, if any
  served,           \* the endpoint: what it answered to each URL asked so far
  pageLog,          \* history (not read by the program) of each iterator
  \* ---- the TTL cache and the accessors that read through it
  config,           \* CacheService.config
  clock,            \* Date.now()
  stores,           \* per cache store: key -> stored item with its timeCached
  calls,            \* per caller: the accessor call it runs and where it stands
  cacheLog,         \* history (not read by the program) of the store operations
  fileRun,          \* the file-list call in progress (getIterator or
                    \* fetchNextAndCacheForFilesPageIterator), if any
  \* ---- a call of chainMiddleware (chainMiddleware.ts:17-28)
  chain             \* its arguments, its locals, its position, and the
                    \* setNext calls it made so far

pageVars == <<iterators, inflight, served, pageLog>>
cacheVars == <<config, clock, stores, calls, cacheLog, fileRun>>
otherVars == <<pageVars, cacheVars, chain>>
batchVars == <<allRequests, requestsQueue, scopes, retryAfter, nextIndex>>
ctlVars   == <<pc, epc, timerMs, posted, responsesAll>>
histVars  == <<ret, fate, owed, used, hist>>
vars      == <<batchVars, ctlVars, histVars, accessorRun, otherVars>>

----------------------------------------------------------------------------
\* Bounds of the model

\* get() calls on one Batch
MaxRequests == 22
\* items (group ids, file queries, insights, teams) passed to an accessor
MaxItems == 2
\* individual requests of an accessor's fallback that fail
MaxIndividualFailures == 1
\* 429 sub-responses the endpoint gives in one run
MaxThrottles == 2
\* sub-responses with a status other than 200 and 429 in one run
MaxDrops == 1
\* rejections of the transport call in one run
MaxRejects == 1
\* the first MaxScoped get() calls pass scopes
MaxScoped == 2
\* the endpoint answers other than 200 only to the first MaxFaultPos sub-requests
\* of a composite request and to its last one
MaxFaultPos == 1
\* get() calls made while an execute call is suspended
MaxLateGets == 1
\* executeNext() calls the owner makes itself
MaxNextCalls == 1
\* executeAll() calls the owner makes
MaxAllCalls == 1
\* the transport calls of one execute call are counted up to this number
MaxPostsCounted == 6

\* Program constants
BatchLimit == 20
StatusOk == 200
StatusThrottled == 429
StatusNotFound == 404
MsPerSecond == 1000

----------------------------------------------------------------------------
\* JavaScript values and library functions

Undefined == [type |-> "undefined", value |-> ""]
Str(s) == [type |-> "string", value |-> s]
Obj(s) == [type |-> "object", value |-> s]

Min(a, b) == IF a < b THEN a ELSE b
Max(a, b) == IF a > b THEN a ELSE b

\* mutant of Splice: slice(0, n), the queue keeps what is taken
SliceOnly(q, n) == <<SubSeq(q, 1, IF n < Len(q) THEN n ELSE Len(q)), q>>

\* mutant of Splice: the newest n are taken
SpliceFromEnd(q, n) ==
  <<SubSeq(q, Len(q) - (IF n < Len(q) THEN n ELSE Len(q)) + 1, Len(q)),
    SubSeq(q, 1, Len(q) - (IF n < Len(q) THEN n ELSE Len(q)))>>

\* mutant of Splice: the whole queue is taken, whatever n
SpliceAll(q, n) == <<q, <<>>>>

\* Array.prototype.splice(0, n): <<removed, rest>>
Splice(q, n) == <<SubSeq(q, 1, Min(n, Len(q))), SubSeq(q, Min(n, Len(q)) + 1, Len(q))>>

\* mutant of Unshift: x is put behind the head of the queue
UnshiftAfterHead(q, x) == IF q = <<>> THEN <<x>> ELSE <<Head(q), x>> \o Tail(q)

\* mutant of Unshift: x is put at the head twice
UnshiftTwice(q, x) == <<x, x>> \o q

\* mutant of Unshift: push(x)
UnshiftAtBack(q, x) == Append(q, x)

\* Array.prototype.unshift(x)
Unshift(q, x) == <<x>> \o q

Reverse(s) == [i \in 1..Len(s) |-> s[Len(s) + 1 - i]]

\* String.prototype.includes(pat)
Includes(s, pat) ==
  \E i \in 1..(Len(s) - Len(pat) + 1) : SubSeq(s, i, i + Len(pat) - 1) = pat

Digits == <<"0", "1", "2", "3", "4", "5", "6", "7", "8", "9">>
IsDigit(c) == \E d \in 1..10 : Digits[d] = c
DigitVal(c) == (CHOOSE d \in 1..10 : Digits[d] = c) - 1

\* the value of the longest digit prefix of s from position i on, acc so far
RECURSIVE DigitPrefix(_, _, _)
DigitPrefix(s, i, acc) ==
  IF i > Len(s) \/ ~IsDigit(SubSeq(s, i, i)) THEN acc
  ELSE DigitPrefix(s, i + 1, 10 * acc + DigitVal(SubSeq(s, i, i)))

\* parseInt(v, 10): [nan, val]; NaN when v is no string or starts with no digit
ParseInt(v) ==
  IF v.type # "string" \/ Len(v.value) = 0 THEN [nan |-> TRUE, val |-> 0]
  ELSE IF SubSeq(v.value, 1, 1) = "-"
    THEN IF Len(v.value) < 2 \/ ~IsDigit(SubSeq(v.value, 2, 2))
         THEN [nan |-> TRUE, val |-> 0]
         ELSE [nan |-> FALSE, val |-> 0 - DigitPrefix(v.value, 2, 0)]
  ELSE IF ~IsDigit(SubSeq(v.value, 1, 1)) THEN [nan |-> TRUE, val |-> 0]
  ELSE [nan |-> FALSE, val |-> DigitPrefix(v.value, 1, 0)]

\* mutant of ParseIntOrOne: parseInt(v, 10) without the `|| 1`, NaN read as 0
ParseIntOrZero(v) ==
  LET p == ParseInt(v) IN IF p.nan THEN 0 ELSE p.val

\* parseInt(v, 10) || 1
ParseIntOrOne(v) ==
  LET p == ParseInt(v) IN IF p.nan \/ p.val = 0 THEN 1 ELSE p.val

\* headers[name] of a plain object
HeaderGet(h, name) == IF name \in DOMAIN h THEN Str(h[name]) ELSE Undefined

\* Map<string, V>
EmptyMap == [k \in {} |-> k]
MapSet(m, k, v) == [x \in DOMAIN m \cup {k} |-> IF x = k THEN v ELSE m[x]]
MapMerge(m, r) == [x \in DOMAIN m \cup DOMAIN r |-> IF x \in DOMAIN r THEN r[x] ELSE m[x]]

----------------------------------------------------------------------------
\* The caller's workload and the batch endpoint

\* Batch.baseUrl
BaseUrl == "https://graph.microsoft.com"

\* the resources the owner asks for, by turns
ResourceKinds ==
  <<"/me", "/me/photo/$value", "/users/a/photo/$value",
    "/groups/g/photo/$value", "/me/drive/root/content">>
ResourceFor(index) == ResourceKinds[(index % Len(ResourceKinds)) + 1]

\* the id the owner gives the request it adds as number `index`
FreshId(index) == "id" \o ToString(index)

\* what the endpoint answers with status 200 for a url: <<headers, body>>
ServerOk(url) ==
  LET resource == SubSeq(url, Len(BaseUrl) + 1, Len(url)) IN
  CASE resource = "/me/photo/$value" ->
         <<("Content-Type" :> "image/jpeg"), Str("/9j/4AAQ")>>
    [] resource = "/users/a/photo/$value" ->
         <<("Content-Type" :> "image/pjpeg"), Str("/9j/4BBR")>>
    [] resource = "/groups/g/photo/$value" ->
         <<("Content-Type" :> "image/png"), Str("iVBORw0K")>>
    [] resource = "/me/drive/root/content" ->
         <<("Content-Type" :> "text/plain"), Str("aGVsbG8=")>>
    [] OTHER ->
         <<("Content-Type" :> "application/json"), Obj("{" \o resource \o "}")>>

\* Retry-After headers of a 429: the header's text ("-": no header; an
\* HTTP-date is the header's other legal form) and the seconds it asks for
\* as an integer (0: none)
RetryAfterValues ==
  { [text |-> "-", seconds |-> 0], [text |-> "0", seconds |-> 0],
    [text |-> "Fri, 31 Dec 1999 23:59:59 GMT", seconds |-> 0],
    [text |-> "2", seconds |-> 2], [text |-> "3", seconds |-> 3] }

NoFault == [status |-> StatusOk, text |-> "-", seconds |-> 0]
Faults ==
  { [status |-> StatusNotFound, text |-> "-", seconds |-> 0] }
  \cup { [status |-> StatusThrottled, text |-> v.text, seconds |-> v.seconds] :
           v \in RetryAfterValues }

\* the sub-response to sub-request sub under answer f
SubResponse(sub, f) ==
  IF f.status = StatusOk
  THEN [id |-> sub.id, status |-> StatusOk,
        headers |-> ServerOk(sub.url)[1], body |-> ServerOk(sub.url)[2]]
  ELSE IF f.status = StatusThrottled
  THEN [id |-> sub.id, status |-> StatusThrottled,
        headers |-> IF f.text = "-" THEN EmptyMap ELSE ("Retry-After" :> f.text),
        body |-> Undefined]
  ELSE [id |-> sub.id, status |-> f.status,
        headers |-> ("Content-Type" :> "application/json"), body |-> Obj("{error}")]

\* positions of a composite request of n sub-requests that may be answered
\* other than 200
FaultPositions(n) == {p \in 1..n : p <= MaxFaultPos \/ p = n}

Count(a, st) == Cardinality({p \in DOMAIN a : a[p].status = st})

\* the answers the endpoint may give to a composite request of n sub-requests
Answers(n) ==
  { a \in { [p \in 1..n |-> IF p \in FaultPositions(n) THEN g[p] ELSE NoFault] :
              g \in [FaultPositions(n) -> Faults \cup {NoFault}] } :
      /\ used.throttles + Count(a, StatusThrottled) <= MaxThrottles
      /\ used.drops + Count(a, StatusNotFound) <= MaxDrops }

\* errors the transport call may reject with
TransportErrors == {"NetworkError", "ServiceUnavailable"}

----------------------------------------------------------------------------
\* Batch (part_010)

Req(i) == allRequests[i + 1]

\* get hasRequests()
hasRequests(q) == Len(q) > 0

\* new BatchRequest(index, id, resource, 'GET') with request.headers = headers
BatchRequest(index, id, resource, headers) ==
  [index |-> index, id |-> id, resource |-> resource, method |-> "GET",
   headers |-> headers]

\* the sub-request executeNext adds to the BatchRequestContent for request
SubRequest(request) ==
  [id |-> ToString(request.index), url |-> BaseUrl \o request.resource,
   method |-> request.method, headers |-> request.headers]

\* the content executeNext gives a 200 sub-response r (undefined when a
\* string body has none of the three image types)
DecodeContent(r) ==
  IF r.body.type = "string"
  THEN IF Includes(r.headers["Content-Type"], "image/jpeg")
       THEN Str("data:image/jpeg;base64," \o r.body.value)
       ELSE IF Includes(r.headers["Content-Type"], "image/pjpeg")
       THEN Str("data:image/pjpeg;base64," \o r.body.value)
       ELSE IF Includes(r.headers["Content-Type"], "image/png")
       THEN Str("data:image/png;base64," \o r.body.value)
       ELSE Undefined
  ELSE r.body

\* mutant of HandleSubResponse: a 429 is dropped like any other failure
HandleSubResponseNoRetry(r, st) ==
  IF r.status # StatusOk THEN st
  ELSE LET request == Req(ParseInt(Str(r.id)).val) IN
       [st EXCEPT
          !.responses =
             MapSet(@, request.id,
                    [id |-> request.id, index |-> request.index,
                     headers |-> r.headers, content |-> DecodeContent(r)])]

\* mutant of HandleSubResponse: every failure is retried like a 429
HandleSubResponseRetryAll(r, st) ==
  IF r.status # StatusOk
  THEN [st EXCEPT
          !.queue = Unshift(@, ParseInt(Str(r.id)).val),
          !.retryAfter = Max(@, ParseIntOrOne(HeaderGet(r.headers, "Retry-After")))]
  ELSE LET request == Req(ParseInt(Str(r.id)).val) IN
       [st EXCEPT
          !.responses =
             MapSet(@, request.id,
                    [id |-> request.id, index |-> request.index,
                     headers |-> r.headers, content |-> DecodeContent(r)])]

\* one turn of the loop over batchResponse.responses; st is
\* [queue, retryAfter, responses]
HandleSubResponse(r, st) ==
  LET index == ParseInt(Str(r.id)).val
      request == Req(index)
      response == [id |-> request.id, index |-> request.index,
                   headers |-> r.headers, content |-> Undefined]
  IN IF r.status # StatusOk
     THEN IF r.status = StatusThrottled
          THEN [st EXCEPT
                  !.queue = Unshift(@, index),
                  !.retryAfter =
                     Max(@, ParseIntOrOne(HeaderGet(r.headers, "Retry-After")))]
          ELSE st
     ELSE [st EXCEPT
             !.responses =
                MapSet(@, request.id, [response EXCEPT !.content = DecodeContent(r)])]

\* the loop over batchResponse.responses
RECURSIVE Demux(_, _)
Demux(rs, st) ==
  IF rs = <<>> THEN st
  ELSE CHOOSE out \in {Demux(Tail(rs), after) :
                         after \in {HandleSubResponse(Head(rs), st)}} : TRUE

\* what a call gives its caller
NoReturn == [call |-> "none", threw |-> FALSE, value |-> EmptyMap, error |-> ""]
Returned(call, value) == [call |-> call, threw |-> FALSE, value |-> value, error |-> ""]
Threw(call, e) == [call |-> call, threw |-> TRUE, value |-> EmptyMap, error |-> e]

\* The control state a step leaves: the Batch's queue and retryAfter, the
\* positions, executeAll's accumulated responses (acc) and the result given
\* to the caller, if the call ended.
Ctl(p, e, t, q, ra, sent, acc, r) ==
  [pc |-> p, epc |-> e, timerMs |-> t, queue |-> q, retryAfter |-> ra,
   posted |-> sent, acc |-> acc, ret |-> r]

RECURSIVE executeNextEnter(_, _, _, _)
RECURSIVE executeNextSend(_, _, _, _, _)
RECURSIVE executeNextReturn(_, _, _, _, _)

\* executeAll's loop after executeNext returned r: merge, test hasRequests,
\* call executeNext again or return
executeAllLoop(acc, r, q, ra) ==
  LET merged == MapMerge(acc, r) IN
  IF hasRequests(q)
  THEN executeNextEnter("all", merged, q, ra)
  ELSE Ctl("idle", "none", 0, q, ra, <<>>, EmptyMap, Returned("all", merged))

\* executeNext returns r to its caller
executeNextReturn(caller, acc, r, q, ra) ==
  IF caller = "all"
  THEN executeAllLoop(acc, r, q, ra)
  ELSE Ctl("idle", "none", 0, q, ra, <<>>, acc, Returned("next", r))

\* mutant of executeNextThrow: executeNext catches and returns an empty map
executeNextThrowCaught(caller, q, ra, e) ==
  executeNextReturn(caller, responsesAll, EmptyMap, q, ra)

\* mutant of executeNextThrow: the requests of the rejected round are put
\* back at the head of the queue before executeNext rejects
executeNextThrowRequeue(caller, q, ra, e) ==
  Ctl("idle", "none", 0,
      [k \in 1..Len(posted) |->
         CHOOSE i \in 0..(nextIndex - 1) : ToString(i) = posted[k].id] \o q,
      ra, <<>>, EmptyMap, Threw(caller, e))

\* post() rejects with e: the await in executeNext throws, nothing catches it
\* there nor in executeAll
executeNextThrow(caller, q, ra, e) ==
  Ctl("idle", "none", 0, q, ra, <<>>, EmptyMap, Threw(caller, e))

\* executeNext from `if (!this.hasRequests)` to its await of post()
executeNextSend(caller, acc, q, ra, t) ==
  IF ~hasRequests(q)
  THEN executeNextReturn(caller, acc, EmptyMap, q, ra)
  ELSE LET nextBatch == Splice(q, BatchLimit) IN
       Ctl(caller, "post", t, nextBatch[2], ra,
           [k \in 1..Len(nextBatch[1]) |-> SubRequest(Req(nextBatch[1][k]))],
           acc, NoReturn)

\* mutant of executeNextEnter: the delay is skipped
executeNextEnterNoDelay(caller, acc, q, ra) ==
  executeNextSend(caller, acc, q, 0, 0)

\* executeNext from its entry to its first suspension
executeNextEnter(caller, acc, q, ra) ==
  IF ra # 0
  THEN Ctl(caller, "delay", ra * MsPerSecond, q, ra, <<>>, acc, NoReturn)
  ELSE executeNextSend(caller, acc, q, ra, 0)

\* the step's control state becomes the next state
Becomes(c) ==
  /\ pc' = c.pc
  /\ epc' = c.epc
  /\ timerMs' = c.timerMs
  /\ requestsQueue' = c.queue
  /\ retryAfter' = c.retryAfter
  /\ posted' = c.posted
  /\ responsesAll' = c.acc
  /\ ret' = c.ret

----------------------------------------------------------------------------
\* History

\* the index of the request behind sub-request sub
IndexOf(sub) == CHOOSE i \in 0..(nextIndex - 1) : ToString(i) = sub.id

\* the sub-requests in flight, as indices
PostedSeq == [k \in 1..Len(posted) |-> IndexOf(posted[k])]
PostedIndices == {PostedSeq[k] : k \in 1..Len(posted)}

\* an execute call begins: no transport call of it yet
CallBegins(h) ==
  [h EXCEPT !.posts = 0, !.rejectedWith = "",
            !.mine = {requestsQueue[k] : k \in 1..Len(requestsQueue)}]

\* a step that left control state c issued a transport call iff it left
\* executeNext in post()
CountPost(h, c) ==
  [h EXCEPT !.posts = IF c.epc = "post" THEN Min(@ + 1, MaxPostsCounted) ELSE @,
            !.rejectedWith = ""]

\* whether an execute call has begun on this Batch
Executed == used.nextCalls + used.allCalls > 0

----------------------------------------------------------------------------
\* Actions

\* what an accessor gave its caller: it threw error, or returned the items
\* with the keys got
NoOutcome == [settled |-> FALSE, threw |-> FALSE, error |-> "", got |-> <<>>]
Gave(got) == [settled |-> TRUE, threw |-> FALSE, error |-> "", got |-> got]
Rejected(e) == [settled |-> TRUE, threw |-> TRUE, error |-> e, got |-> <<>>]

\* no accessor runs: the Batch is driven by its owner directly
NoAccessor ==
  [name |-> "none", call |-> [name |-> "none", n |-> 0, query |-> ""],
   pc |-> "idle", batchError |-> "", individual |-> <<>>, failed |-> {},
   outcome |-> NoOutcome]

\* JavaScript's null
Null == [type |-> "null", value |-> ""]

\* the two iterators of a round trip: "live" is made by create() from a
\* request, "replay" by createFromValue() from a first page kept elsewhere
IterIds == {"live", "replay"}

\* an iterator that was not made yet
NoIterator == [made |-> FALSE, value |-> <<>>, nextLink |-> Undefined, version |-> ""]

\* next() awaits nothing
NoRequest == [sent |-> FALSE, resource |-> Undefined, version |-> ""]

\* next() gave nothing yet
NoPage == [kind |-> "none", items |-> <<>>, nextLink |-> Undefined]

NoLog ==
  [requests |-> <<>>, calls |-> 0, last |-> "none", returned |-> <<>>,
   received |-> NoPage, first |-> NoPage, sawNoLink |-> FALSE]

\* ---- the cache configuration (CacheService.config)
Categories == {"groups", "photos", "presence", "files", "fileLists", "users"}

\* the invalidation period of a configuration that sets none, in clock ticks
DefaultPeriod == 2

\* the configuration the program starts with: everything enabled, no
\* category with a period of its own
DefaultConfig ==
  [isEnabled |-> TRUE, defaultInvalidationPeriod |-> DefaultPeriod,
   category |-> [c \in Categories |-> [isEnabled |-> TRUE, invalidationPeriod |-> 0]]]

\* the cache stores the accessors use, and the category that configures each
StoreNames ==
  {"groups", "users", "presence", "fileQueries", "cardState", "fileLists",
   "groupsQuery", "insightfileLists"}

\* the two callers that may run accessor calls at the same time
Pids == {1, 2}

NoAwait == [kind |-> "none", store |-> "", key |-> "", item |-> Null, resource |-> "", shape |-> ""]

\* no accessor call runs.  From `storeOps` on the fields are history: the
\* store operations and remote requests the call issued, whether the cache
\* was enabled for it, what its store read met ("" | "disabled" |
\* "readFail" | "absent" | "stale" | "fresh") and when, whether a
\* remote request of it failed, and the store and key it read
NoCall ==
  [name |-> "none", arg |-> Undefined, pc |-> "idle", await |-> NoAwait,
   entry |-> Undefined, data |-> Undefined, outcome |-> NoOutcome,
   storeOps |-> 0, fetches |-> 0, enabled |-> TRUE, cond |-> "",
   readAt |-> 0, found |-> Undefined, remoteFailed |-> FALSE,
   fetched |-> Undefined, readKey |-> [store |-> "", key |-> ""]]

\* no store operation was seen
NoCacheLog ==
  [configures |-> 0, started |-> 0, readFailures |-> 0, fetchFailures |-> 0,
   clears |-> 0, lastPut |-> EmptyMap, reads |-> EmptyMap]

\* no file-list call runs
NoFileRun == [pc |-> "idle", id |-> "", nextLink |-> "", key |-> "", threw |-> FALSE, done |-> 0]

\* a middleware object: it is told apart by its name, and it may or may not
\* have a setNext method (chainMiddleware.ts:23)
Middleware(name, setNext) == [type |-> "middleware", value |-> name, setNext |-> setNext]

\* no call of chainMiddleware was made yet
NoChain ==
  [pc |-> "idle", middleware |-> <<>>, rootMiddleware |-> Undefined,
   current |-> Undefined, i |-> 0, links |-> <<>>,
   outcome |-> [kind |-> "none", value |-> Undefined]]

Init ==
  /\ config = DefaultConfig
  /\ clock = 0
  /\ stores = [s \in StoreNames |-> EmptyMap]
  /\ calls = [p \in Pids |-> NoCall]
  /\ cacheLog = NoCacheLog
  /\ fileRun = NoFileRun
  /\ iterators = [i \in IterIds |-> NoIterator]
  /\ inflight = [i \in IterIds |-> NoRequest]
  /\ served = EmptyMap
  /\ pageLog = [i \in IterIds |-> NoLog]
  /\ allRequests = <<>>
  /\ requestsQueue = <<>>
  /\ scopes = <<>>
  /\ nextIndex = 0
  /\ retryAfter = 0
  /\ pc = "idle"
  /\ epc = "none"
  /\ timerMs = 0
  /\ posted = <<>>
  /\ responsesAll = EmptyMap
  /\ ret = NoReturn
  /\ fate = <<>>
  /\ owed = <<>>
  /\ used = [throttles |-> 0, drops |-> 0, rejects |-> 0, lateGets |-> 0,
             nextCalls |-> 0, allCalls |-> 0]
  /\ hist = [mine |-> {}, posts |-> 0, rejectedWith |-> ""]
  /\ accessorRun = NoAccessor
  /\ chain = NoChain

\* the ids the owner may pass to its next get()
\* (ids are unique in a Batch's lifetime: spec.md section 3, BatchRequest)
IdChoices == {FreshId(nextIndex)}

\* the scopes argument the owner passes to its next get() (<<>>: none)
ScopesFor(index) == IF index < MaxScoped THEN <<"Group.Read.All">> ELSE <<>>

\* mutant of AddScopes: a scope already accumulated is not added again
AddScopesOnce(old, scopesArg) ==
  old \o SelectSeq(scopesArg, LAMBDA x : \A k \in 1..Len(old) : old[k] # x)

\* if (scopes) { this.scopes = this.scopes.concat(scopes) }  (<<>>: no scopes
\* argument, or an empty one, which concat leaves without effect)
AddScopes(old, scopesArg) == IF scopesArg # <<>> THEN old \o scopesArg ELSE old

\* get(id, resource, scopes, headers)
Get(id, resource, scopesArg, headers) ==
  /\ nextIndex < MaxRequests
  /\ IF pc = "idle" THEN ~Executed ELSE used.lateGets < MaxLateGets
  /\ LET index == nextIndex
         request == BatchRequest(index, id, resource, headers)
     IN /\ nextIndex' = nextIndex + 1
        /\ allRequests' = Append(allRequests, request)
        /\ requestsQueue' = Append(requestsQueue, index)
        /\ scopes' = AddScopes(scopes, scopesArg)
        /\ fate' = Append(fate, "pending")
        /\ owed' = Append(owed, 0)
        /\ used' = [used EXCEPT !.lateGets = IF pc # "idle" THEN @ + 1 ELSE @]
  /\ ret' = NoReturn
  /\ hist' = [hist EXCEPT !.rejectedWith = "",
                           !.mine = IF pc # "idle" THEN @ \cup {nextIndex} ELSE @]
  /\ UNCHANGED <<retryAfter, ctlVars, accessorRun, otherVars>>

GetAny ==
  \E id \in IdChoices :
    Get(id, ResourceFor(nextIndex), ScopesFor(nextIndex), Undefined)

\* the owner calls executeNext(): it runs to its first suspension, or returns
CallExecuteNext ==
  /\ pc = "idle"
  /\ used.nextCalls < MaxNextCalls
  /\ \E c \in {executeNextEnter("next", EmptyMap, requestsQueue, retryAfter)} :
     /\ Becomes(c)
     /\ hist' = CountPost(CallBegins(hist), c)
  /\ used' = [used EXCEPT !.nextCalls = @ + 1]
  /\ UNCHANGED <<allRequests, scopes, nextIndex, fate, owed, accessorRun, otherVars>>

\* the owner calls executeAll(): it runs to executeNext's first suspension, or
\* returns at once when nothing is pending
CallExecuteAll ==
  /\ pc = "idle"
  /\ used.allCalls < MaxAllCalls
  /\ \E c \in {executeAllLoop(EmptyMap, EmptyMap, requestsQueue, retryAfter)} :
     /\ Becomes(c)
     /\ hist' = CountPost(CallBegins(hist), c)
  /\ used' = [used EXCEPT !.allCalls = @ + 1]
  /\ UNCHANGED <<allRequests, scopes, nextIndex, fate, owed, accessorRun, otherVars>>

\* delay(retryAfter * 1000) resolves: retryAfter = 0, then the round goes on
DelayDone ==
  /\ epc = "delay"
  /\ \E c \in {executeNextSend(pc, responsesAll, requestsQueue, 0, timerMs)} :
     /\ Becomes(c)
     /\ hist' = CountPost(hist, c)
  /\ owed' = [i \in DOMAIN owed |->
                IF owed[i] * MsPerSecond <= timerMs THEN 0 ELSE owed[i]]
  /\ UNCHANGED <<allRequests, scopes, nextIndex, fate, used, accessorRun, otherVars>>

\* post() resolves with the endpoint's answers a, listed in the order sent or
\* (reversed) in the opposite order; executeNext demultiplexes and returns
PostResolves(a, reversed) ==
  /\ epc = "post"
  /\ used' = [used EXCEPT !.throttles = @ + Count(a, StatusThrottled),
                          !.drops = @ + Count(a, StatusNotFound)]
  /\ LET sent == PostedSeq
         sentSet == {sent[k] : k \in 1..Len(sent)}
         answerTo(i) == a[CHOOSE k \in 1..Len(sent) : sent[k] = i]
     IN /\ fate' = [j \in DOMAIN fate |->
                      IF (j - 1) \notin sentSet THEN fate[j]
                      ELSE IF answerTo(j - 1).status = StatusOk THEN "ok"
                      ELSE IF answerTo(j - 1).status = StatusThrottled THEN "throttled"
                      ELSE "dropped"]
        /\ owed' = [j \in DOMAIN owed |->
                      IF (j - 1) \in sentSet
                         /\ answerTo(j - 1).status = StatusThrottled
                      THEN answerTo(j - 1).seconds ELSE owed[j]]
  /\ \E batchResponse \in
        {LET inOrder == [k \in 1..Len(posted) |-> SubResponse(posted[k], a[k])]
         IN [responses |-> IF reversed THEN Reverse(inOrder) ELSE inOrder]} :
     \E st \in {Demux(batchResponse.responses,
                       [queue |-> requestsQueue, retryAfter |-> retryAfter,
                        responses |-> EmptyMap])} :
     \E c \in {executeNextReturn(pc, responsesAll, st.responses, st.queue,
                                 st.retryAfter)} :
       /\ Becomes(c)
       /\ hist' = CountPost(hist, c)
  /\ UNCHANGED <<allRequests, scopes, nextIndex, accessorRun, otherVars>>

\* the orders the endpoint may list its answers a in; the order shows only
\* in the queue, when two or more sub-requests are throttled
Orders(a) == IF Count(a, StatusThrottled) >= 2 THEN BOOLEAN ELSE {FALSE}

PostResolvesAny ==
  \E a \in Answers(Len(posted)) : \E reversed \in Orders(a) : PostResolves(a, reversed)

\* post() rejects with e: executeNext, and executeAll when it is the caller,
\* reject with e
PostRejects(e) ==
  /\ epc = "post"
  /\ used.rejects < MaxRejects
  /\ Becomes(executeNextThrow(pc, requestsQueue, retryAfter, e))
  /\ hist' = [hist EXCEPT !.rejectedWith = e]
  /\ LET sentSet == PostedIndices IN
     fate' = [j \in DOMAIN fate |-> IF (j - 1) \in sentSet THEN "lost" ELSE fate[j]]
  /\ used' = [used EXCEPT !.rejects = @ + 1]
  /\ UNCHANGED <<allRequests, scopes, nextIndex, owed, accessorRun, otherVars>>

PostRejectsAny == \E e \in TransportErrors : PostRejects(e)

Next ==
  \/ GetAny
  \/ CallExecuteNext
  \/ CallExecuteAll
  \/ DelayDone
  \/ PostResolvesAny
  \/ PostRejectsAny

Spec == Init /\ [][Next]_vars

\* The transport call never rejects; the timer of delay() fires and the
\* transport call settles.
NextNoReject ==
  \/ GetAny
  \/ CallExecuteNext
  \/ CallExecuteAll
  \/ DelayDone
  \/ PostResolvesAny

LiveSpec ==
  Init /\ [][NextNoReject]_vars /\ WF_vars(DelayDone) /\ WF_vars(PostResolvesAny)

----------------------------------------------------------------------------
\* The accessors that issue their requests through a Batch.  The caches are
\* disabled or miss, and the person of getPersonCardGraphData is a contact
\* with an e-mail address, so that its Batch holds the messages and the
\* files request.  Of an individual request only the resource is modelled.

Accessors ==
  {"getGroupsForGroupIds", "findGroups", "getFilesByQueries",
   "getDriveItemsByInsights", "getPersonCardGraphData", "getChannelsForTeams"}

validGroupQueryScopes ==
  <<"GroupMember.Read.All", "Group.Read.All", "Directory.Read.All",
    "Group.ReadWrite.All", "Directory.ReadWrite.All">>
validDriveItemScopes ==
  <<"Files.Read", "Files.ReadWrite", "Files.Read.All", "Files.ReadWrite.All",
    "Group.Read.All", "Group.ReadWrite.All", "Sites.Read.All", "Sites.ReadWrite.All">>
validInsightScopes == <<"Sites.Read.All", "Sites.ReadWrite.All">>
validMailSearchScopes == <<"Mail.ReadBasic", "Mail.Read", "Mail.ReadWrite">>
channelReadScopes ==
  <<"Channel.ReadBasic.All", "ChannelSettings.Read.All", "ChannelSettings.ReadWrite.All">>

\* one batch.get(id, resource, scopes) of an accessor
BatchGet(id, resource, scopesArg) == [id |-> id, resource |-> resource, scopes |-> scopesArg]

\* the filters findGroups builds for the group types unified, security,
\* mailenabledsecurity and distribution
filterGroups ==
  <<"groupTypes/any(c:c+eq+'Unified')",
    "(mailEnabled eq false and securityEnabled eq true)",
    "(mailEnabled eq true and securityEnabled eq true)",
    "(mailEnabled eq true and securityEnabled eq false)">>

\* the queries findGroups is called with
Queries == {"", "ab"}

\* findGroups' filterQuery as it stands when the batch is built
filterQuery(query) ==
  LET startsWith ==
        IF query # ""
        THEN "(startswith(displayName,'" \o query \o "') or startswith(mailNickname,'"
             \o query \o "') or startswith(mail,'" \o query \o "'))"
        ELSE ""
  IN IF startsWith # "" THEN startsWith \o " and " ELSE ""

\* the e-mail address of the person card's person, and findGroups' top
Email == "a@b.c"
Top == 10

\* the calls made to the accessors: n items (ids, group types, queries,
\* insights, teams)
AccessorCalls ==
  {[name |-> a, n |-> n, query |-> ""] :
     a \in Accessors \ {"getPersonCardGraphData"}, n \in 1..MaxItems}
  \cup {[name |-> "findGroups", n |-> n, query |-> q] :
          n \in 1..Min(MaxItems, Len(filterGroups)), q \in Queries}
  \cup {[name |-> "getPersonCardGraphData", n |-> 2, query |-> ""]}

\* the batch.get() calls an accessor makes, in order
Gets(call) ==
  CASE call.name = "getGroupsForGroupIds" ->
         [k \in 1..call.n |->
            BatchGet("g" \o ToString(k), "/groups/g" \o ToString(k), validGroupQueryScopes)]
    [] call.name = "findGroups" ->
         [k \in 1..Min(call.n, Len(filterGroups)) |->
            BatchGet(filterGroups[k],
                     "/groups?$filter=" \o filterQuery(call.query) \o filterGroups[k]
                        \o "&$top=" \o ToString(Top),
                     validGroupQueryScopes)]
    [] call.name = "getFilesByQueries" ->
         [k \in 1..call.n |->
            BatchGet("/me/drive/items/f" \o ToString(k),
                     "/me/drive/items/f" \o ToString(k), validDriveItemScopes)]
    [] call.name = "getDriveItemsByInsights" ->
         [k \in 1..call.n |->
            BatchGet("/drives/d/items/i" \o ToString(k),
                     "/drives/d/items/i" \o ToString(k), validInsightScopes)]
    [] call.name = "getPersonCardGraphData" ->
         <<BatchGet("messages", "me/messages?$search=\"from:" \o Email \o "\"",
                    validMailSearchScopes),
           BatchGet("files",
                    "me/insights/shared?$filter=lastshared/sharedby/address eq '"
                       \o Email \o "'",
                    validInsightScopes)>>
    [] call.name = "getChannelsForTeams" ->
         [k \in 1..call.n |->
            BatchGet("t" \o ToString(k), "teams/t" \o ToString(k) \o "/channels",
                     channelReadScopes)]

\* the requests an accessor issues one by one when its catch block runs
\* (getGroup, the groups queries, getDriveItemByQuery, graph.api(id).get());
\* $count and the ConsistencyLevel header of the groups queries are left out
Individuals(call) ==
  CASE call.name = "getGroupsForGroupIds" ->
         [k \in 1..call.n |-> "/groups/" \o Gets(call)[k].id]
    [] call.name = "findGroups" ->
         [k \in 1..Min(call.n, Len(filterGroups)) |->
            "/groups?$filter=" \o filterQuery(call.query) \o " and " \o filterGroups[k]
               \o "&$top=" \o ToString(Top)]
    [] call.name = "getFilesByQueries" ->
         [k \in 1..call.n |-> Gets(call)[k].id]
    [] call.name = "getDriveItemsByInsights" ->
         [k \in 1..call.n |-> Gets(call)[k].id]
    [] OTHER -> <<>>

\* this.scopes after the gets
RECURSIVE ConcatScopes(_)
ConcatScopes(gets) ==
  IF gets = <<>> THEN <<>> ELSE Head(gets).scopes \o ConcatScopes(Tail(gets))

\* a JavaScript value in a condition
Truthy(v) == v.type # "undefined"

\* an accessor is called: it creates its Batch and calls batch.get() for
\* each item
AccessorBuilds(call) ==
  /\ accessorRun.name = "none"
  /\ pc = "idle"
  /\ nextIndex = 0
  /\ ~Executed
  /\ LET gets == Gets(call)
         n == Len(gets)
     IN /\ allRequests' =
             [k \in 1..n |-> BatchRequest(k - 1, gets[k].id, gets[k].resource, Undefined)]
        /\ requestsQueue' = [k \in 1..n |-> k - 1]
        /\ nextIndex' = n
        /\ scopes' = ConcatScopes(gets)
        /\ fate' = [k \in 1..n |-> "pending"]
        /\ owed' = [k \in 1..n |-> 0]
  /\ accessorRun' = [name |-> call.name, call |-> call, pc |-> "batch",
                     batchError |-> "", individual |-> <<>>, failed |-> {},
                     outcome |-> NoOutcome]
  /\ ret' = NoReturn
  /\ hist' = [hist EXCEPT !.rejectedWith = ""]
  /\ UNCHANGED <<retryAfter, ctlVars, used, otherVars>>

AccessorBuildsAny == \E call \in AccessorCalls : AccessorBuilds(call)

\* the accessor calls batch.executeAll()
AccessorExecutes ==
  /\ accessorRun.pc = "batch"
  /\ used.allCalls = 0
  /\ CallExecuteAll

\* batch.executeAll() settled: the accessor reads the responses and returns,
\* or its catch block runs, or (no catch block) it rejects
AccessorResumes ==
  /\ accessorRun.pc = "batch"
  /\ pc = "idle"
  /\ ret.call = "all"
  /\ LET name == accessorRun.name
         keys == [k \in 1..Len(allRequests) |-> allRequests[k].id]
         responses == ret.value
         Listed(id) == id \in DOMAIN responses
         HasContent(id) == Listed(id) /\ Truthy(responses[id].content)
         \* findGroups reads responses.get(filter).content.value unguarded
         typeError == /\ ~ret.threw
                      /\ name = "findGroups"
                      /\ \E k \in 1..Len(keys) : ~HasContent(keys[k])
         batchError == IF ret.threw THEN ret.error ELSE ""
     IN accessorRun' =
          IF ~ret.threw /\ ~typeError
          THEN [accessorRun EXCEPT
                  !.pc = "done",
                  !.outcome = IF name = "getPersonCardGraphData"
                              THEN Gave(SelectSeq(keys, Listed))
                              ELSE Gave(SelectSeq(keys, HasContent))]
          ELSE CASE name = "getChannelsForTeams" ->
                      [accessorRun EXCEPT !.pc = "done", !.batchError = batchError,
                                          !.outcome = Rejected(ret.error)]
                 [] name = "getPersonCardGraphData" ->
                      [accessorRun EXCEPT !.pc = "done", !.batchError = batchError,
                                          !.outcome = Gave(<<>>)]
                 [] OTHER ->
                      [accessorRun EXCEPT !.pc = "fallback", !.batchError = batchError,
                                          !.individual = Individuals(accessorRun.call)]
  /\ ret' = NoReturn
  /\ hist' = [hist EXCEPT !.rejectedWith = ""]
  /\ UNCHANGED <<batchVars, ctlVars, fate, owed, used, otherVars>>

\* the individual requests settle, those of failing with a rejection
IndividualsSettle(failing) ==
  /\ accessorRun.pc = "fallback"
  /\ LET name == accessorRun.name
         keys == [k \in 1..Len(allRequests) |-> allRequests[k].id]
         Kept(k) == k \notin failing
         kept == SelectSeq([k \in 1..Len(keys) |-> k], Kept)
     IN accessorRun' =
          [accessorRun EXCEPT
             !.pc = "done",
             !.failed = failing,
             !.outcome =
                CASE name = "getFilesByQueries" ->
                       \* getDriveItemByQuery catches and gives null
                       Gave([j \in 1..Len(kept) |-> keys[kept[j]]])
                  [] name = "findGroups" ->
                       \* await Promise.all(queries) inside try: caught, []
                       IF failing = {} THEN Gave(keys) ELSE Gave(<<>>)
                  [] OTHER ->
                       \* return Promise.all(...) is not awaited inside try
                       IF failing = {} THEN Gave(keys) ELSE Rejected("IndividualError")]
  /\ ret' = NoReturn
  /\ hist' = [hist EXCEPT !.rejectedWith = ""]
  /\ UNCHANGED <<batchVars, ctlVars, fate, owed, used, otherVars>>

IndividualsSettleAny ==
  \E failing \in SUBSET (1..Len(accessorRun.individual)) :
    /\ Cardinality(failing) <= MaxIndividualFailures
    /\ IndividualsSettle(failing)

AccessorNext ==
  \/ AccessorBuildsAny
  \/ AccessorExecutes
  \/ DelayDone
  \/ PostResolvesAny
  \/ PostRejectsAny
  \/ AccessorResumes
  \/ IndividualsSettleAny

AccessorSpec == Init /\ [][AccessorNext]_vars

-----------------------------------------------------------------------------
(***************************************************************************)
(* GraphPageIterator (packages/mgt-element/src/utils/GraphPageIterator.ts, *)
(* here src/unnamed/part_008) and the paged endpoint it reads.             *)
(***************************************************************************)

\* ---- bounds of the paged workload
MaxPages == 3            \* continuation links the endpoint hands out in a row
MaxPageItems == 2        \* items of one page
MaxIteratorNexts == 3    \* next() calls made on one iterator

\* GRAPH_VERSION, the version of a Graph made without one
GraphVersion == "v1.0"
Versions == {"v1.0", "beta"}

\* the `version` argument of create(): left out, empty, or a version
VersionArgs == {Undefined, Str("")} \cup {Str(v) : v \in Versions}

\* the collection the iterators page through
Endpoint == "/me/drive/root/children"

\* Boolean(v) of a string, undefined or null
ToBoolean(v) == v.type = "string" /\ v.value # ""

\* String.prototype.indexOf, counted from 1; 0 when pat does not occur
FirstIndex(s, pat) ==
  IF Includes(s, pat)
    THEN CHOOSE i \in 1..(Len(s) - Len(pat) + 1) :
           /\ SubSeq(s, i, i + Len(pat) - 1) = pat
           /\ \A j \in 1..(i - 1) : SubSeq(s, j, j + Len(pat) - 1) # pat
    ELSE 0

\* s.split(sep)[1] for a non-empty sep: what lies between the first and
\* the second occurrence of sep, undefined when sep does not occur
SplitSecond(s, sep) ==
  IF ~Includes(s, sep)
    THEN Undefined
    ELSE LET i == FirstIndex(s, sep)
             rest == SubSeq(s, i + Len(sep), Len(s))
             j == FirstIndex(rest, sep)
         IN  Str(IF j = 0 THEN rest ELSE SubSeq(rest, 1, j - 1))

\* Array.prototype.concat
ConcatDropsOld(a, b) == b
Concat(a, b) == a \o b

\* the URL of graph.api(resource).version(version)
RequestUrl(req) == BaseUrl \o "/" \o req.version \o req.resource.value

\* the URL of the request handed to create()
FirstUrl(version) == BaseUrl \o "/" \o version \o Endpoint

\* ---- the endpoint
\* how many continuation links led to this URL
Depth(url) == IF Includes(url, "=") THEN Len(url) - FirstIndex(url, "=") ELSE 0

\* the continuation link the endpoint puts on the page at url: the same
\* URL with a longer skip token
ContinuationOf(url) ==
  IF Includes(url, "?") THEN url \o "x" ELSE url \o "?$skiptoken=x"

\* the n items of the page at url
ItemsAt(url, n) == [k \in 1..n |-> url \o "#" \o ToString(k)]

Page(items, link) == [kind |-> "page", items |-> items, nextLink |-> link]
\* a body without `value`
NoValue == [kind |-> "novalue", items |-> <<>>, nextLink |-> Undefined]
\* the request rejects
Failure == [kind |-> "error", items |-> <<>>, nextLink |-> Undefined]

\* what the endpoint may answer to a URL it was not asked before
Responses(url) ==
  {Page(ItemsAt(url, n), l) :
     n \in 0..MaxPageItems,
     l \in {Undefined} \cup
           (IF Depth(url) < MaxPages THEN {Str(ContinuationOf(url))} ELSE {})}
  \cup {NoValue, Failure}

\* the endpoint answers a URL the same way every time
Answer(url) == IF url \in DOMAIN served THEN {served[url]} ELSE Responses(url)

\* ---- the iterator (part_008)
\* get hasNext
hasNext(it) == ToBoolean(it.nextLink)

\* get nextLink: this._nextLink || ''
nextLinkGetter(it) == IF ToBoolean(it.nextLink) THEN it.nextLink.value ELSE ""

\* create(): the iterator built from the first response, when it has a value
createIterator(response, version) ==
  [made |-> TRUE, value |-> response.items, nextLink |-> response.nextLink,
   version |-> IF ToBoolean(version) THEN version.value ELSE GraphVersion]

\* createFromValue(graph, value, nextLink = null)
createFromValue(value, link) ==
  [made |-> TRUE, value |-> value,
   nextLink |-> IF link = Undefined THEN Null ELSE link,
   version |-> GraphVersion]

\* next(), up to its await: the request it sends
nextRequest(it) ==
  [sent |-> TRUE, resource |-> SplitSecond(it.nextLink.value, it.version),
   version |-> it.version]

\* next(), after its await: the iterator and what next() resolves to
nextResume(it, response) ==
  IF response.kind = "page" /\ Len(response.items) > 0
    THEN [it |-> [it EXCEPT !.value = Concat(it.value, response.items),
                            !.nextLink = response.nextLink],
          last |-> "items", returned |-> response.items]
    ELSE [it |-> it, last |-> "null", returned |-> <<>>]

\* mutant of nextReject: the link is given up with the failed request
nextRejectDropsLink(it) ==
  [it |-> [it EXCEPT !.nextLink = Undefined], last |-> "threw", returned |-> <<>>]

\* next(), its await throwing: nothing in next() catches, and the two
\* assignments behind the await are not reached
nextReject(it) == [it |-> it, last |-> "threw", returned |-> <<>>]

\* ---- actions
pageFrame == <<batchVars, ctlVars, histVars, accessorRun, cacheVars, chain>>

\* GraphPageIterator.create(graph, request, version): the request is sent
\* and the iterator is made from its response, or null is returned, or the
\* call rejects
Create(version, requestVersion) ==
  /\ pageLog["live"].first.kind = "none"
  /\ \E response \in Answer(FirstUrl(requestVersion)) :
       /\ served' = MapSet(served, FirstUrl(requestVersion), response)
       /\ iterators' = [iterators EXCEPT !["live"] =
            IF response.kind = "page" THEN createIterator(response, version)
            ELSE NoIterator]
       /\ pageLog' = [pageLog EXCEPT !["live"].first = response,
            !["live"].requests = <<FirstUrl(requestVersion)>>]
  /\ UNCHANGED <<inflight, pageFrame>>

CreateAny == \E version \in VersionArgs, rv \in Versions : Create(version, rv)

\* GraphPageIterator.createFromValue(graph, V, L) with the first page (V, L)
\* that create() was given
CreateFromFirstPage ==
  /\ pageLog["live"].first.kind = "page"
  /\ ~iterators["replay"].made
  /\ iterators' = [iterators EXCEPT !["replay"] =
       createFromValue(pageLog["live"].first.items, pageLog["live"].first.nextLink)]
  /\ pageLog' = [pageLog EXCEPT !["replay"].first = pageLog["live"].first,
       !["replay"].requests = <<pageLog["live"].requests[1]>>]
  /\ UNCHANGED <<inflight, served, pageFrame>>

\* next() is called: without a link it resolves to null at once, with one
\* it sends its request and awaits the response
NextCalls(id) ==
  /\ iterators[id].made
  /\ fileRun.pc = "idle"
  /\ ~inflight[id].sent
  /\ pageLog[id].calls < MaxIteratorNexts
  /\ IF hasNext(iterators[id])
       THEN \E req \in {nextRequest(iterators[id])} :
              /\ inflight' = [inflight EXCEPT ![id] = req]
              /\ pageLog' = [pageLog EXCEPT ![id].requests =
                   Append(@, IF req.resource = Undefined THEN "undefined"
                             ELSE RequestUrl(req))]
       ELSE /\ pageLog' = [pageLog EXCEPT ![id].calls = @ + 1,
                 ![id].last = "null", ![id].returned = <<>>,
                 ![id].received = NoPage]
            /\ UNCHANGED inflight
  /\ UNCHANGED <<iterators, served, pageFrame>>

NextCallsAny == \E id \in IterIds : NextCalls(id)

\* the request of next() rejects: next() rejects with it.  A request for
\* an undefined resource never gets a response.
NextRejects(id) ==
  /\ inflight[id].sent
  /\ fileRun.pc # "next"
  /\ \/ inflight[id].resource = Undefined /\ UNCHANGED served
     \/ /\ inflight[id].resource # Undefined
        /\ Failure \in Answer(RequestUrl(inflight[id]))
        /\ served' = MapSet(served, RequestUrl(inflight[id]), Failure)
  /\ inflight' = [inflight EXCEPT ![id] = NoRequest]
  /\ \E out \in {nextReject(iterators[id])} :
       /\ iterators' = [iterators EXCEPT ![id] = out.it]
       /\ pageLog' = [pageLog EXCEPT ![id].calls = @ + 1, ![id].last = out.last,
            ![id].returned = out.returned, ![id].received = Failure]
  /\ UNCHANGED pageFrame

NextRejectsAny == \E id \in IterIds : NextRejects(id)

\* the request of next() gets its response: next() runs to its end
NextResolves(id) ==
  /\ inflight[id].sent
  /\ fileRun.pc # "next"
  /\ inflight[id].resource # Undefined
  /\ \E response \in Answer(RequestUrl(inflight[id])) \ {Failure} :
     \E out \in {nextResume(iterators[id], response)} :
       /\ served' = MapSet(served, RequestUrl(inflight[id]), response)
       /\ iterators' = [iterators EXCEPT ![id] = out.it]
       /\ pageLog' = [pageLog EXCEPT ![id].calls = @ + 1,
            ![id].last = out.last, ![id].returned = out.returned,
            ![id].received = response,
            ![id].sawNoLink = @ \/ (response.kind = "page" /\ response.nextLink = Undefined)]
  /\ inflight' = [inflight EXCEPT ![id] = NoRequest]
  /\ UNCHANGED pageFrame

NextResolvesAny == \E id \in IterIds : NextResolves(id)

PageNext ==
  \/ CreateAny
  \/ CreateFromFirstPage
  \/ NextCallsAny
  \/ NextRejectsAny
  \/ NextResolvesAny

PageSpec == Init /\ [][PageNext]_vars

-----------------------------------------------------------------------------
(***************************************************************************)
(* The TTL cache: the configuration read by the accessors, the store       *)
(* contract (getValue, putValue stamping timeCached, clearStore), and the  *)
(* conversions of the cached payloads.                                     *)
(***************************************************************************)

\* ---- bounds of the cache workload
MaxClock == 3            \* Date.now() goes from 0 to MaxClock
MaxTop == 1              \* the `top` argument of the file-list accessors
MaxFileCalls == 3        \* file-list calls (getIterator, fetchNextAndCache...)

\* JSON.stringify of a string value, and JSON.parse of what it gives
JsonStringify(v) == "\"" \o v \o "\""
JsonParse(s) == SubSeq(s, 2, Len(s) - 1)

\* CacheStore.getValue(key): the stored item, or null
getValueStampedNow(store, key) ==
  IF key \in DOMAIN stores[store]
    THEN [stores[store][key] EXCEPT !.timeCached = clock] ELSE Null
getValue(store, key) ==
  IF key \in DOMAIN stores[store] THEN stores[store][key] ELSE Null

\* CacheStore.putValue(key, item): the stores once item is written under
\* key, stamped with the time of the write
putValue(st, store, key, item) ==
  [st EXCEPT ![store] = MapSet(@, key, [item EXCEPT !.timeCached = clock])]

\* CacheStore.clearStore()
clearStore(st, store) == [st EXCEPT ![store] = EmptyMap]

\* ---- the configuration getters
getIsFileListsCacheEnabled == config.category["fileLists"].isEnabled /\ config.isEnabled
getFileListInvalidationTime ==
  IF config.category["fileLists"].invalidationPeriod # 0
    THEN config.category["fileLists"].invalidationPeriod
    ELSE config.defaultInvalidationPeriod

\* Date.now() advances
Tick ==
  /\ clock < MaxClock
  /\ clock' = clock + 1
  /\ UNCHANGED <<config, stores, calls, cacheLog, fileRun, pageVars,
                 batchVars, ctlVars, histVars, accessorRun, chain>>

-----------------------------------------------------------------------------
(***************************************************************************)
(* The file lists (graph.files.ts, here                                    *)
(* src/packages/mgt-components/src/graph/graph.photos.ts:735-1165): page   *)
(* iterators whose accumulated pages are kept in the fileLists store.      *)
(***************************************************************************)

\* the template literal `${top}`
TopString(top) == IF top = Undefined THEN "undefined" ELSE ToString(top.value)
Tops == {Undefined} \cup {[type |-> "number", value |-> n] : n \in 1..MaxTop}

\* a CacheFileList
FileList(files, link) == [files |-> files, nextLink |-> link, timeCached |-> 0]

\* filesPageIterator.value.map(v => JSON.stringify(v))
StringifyAll(value) == [k \in 1..Len(value) |-> JsonStringify(value[k])]
\* value.map(v => JSON.parse(v))
ParseAll(files) == [k \in 1..Len(files) |-> JsonParse(files[k])]

\* getFileListFromCache(cache, store, key)
getFileListFromCache(key) ==
  IF getIsFileListsCacheEnabled
    THEN LET fileList == getValue("fileLists", key)
         IN  IF fileList # Null /\ getFileListInvalidationTime > clock - fileList.timeCached
               THEN fileList ELSE Null
    ELSE Null

\* getFilesPageIteratorFromCache(graph, value, nextLink)
getFilesPageIteratorFromCache(files, link) == createFromValue(ParseAll(files), Str(link))

\* /(graph.microsoft.com\/(v1.0|beta))(.*?)(?=\?)/gi .exec(link): the third
\* group of the match, what lies between the version and the first "?"
\* after it; null when there is no match.  (The links of the endpoint hold
\* the host once, so the first place the pattern can match is the only one.)
RegexEndpoint(link) ==
  LET markers == {m \in {"graph.microsoft.com/v1.0", "graph.microsoft.com/beta"} :
                    Includes(link, m)}
  IN  IF markers = {} THEN Null
      ELSE LET m == CHOOSE x \in markers :
                      \A y \in markers : FirstIndex(link, x) <= FirstIndex(link, y)
               rest == SubSeq(link, FirstIndex(link, m) + Len(m), Len(link))
           IN  IF Includes(rest, "?")
                 THEN Str(SubSeq(rest, 1, FirstIndex(rest, "?") - 1))
                 ELSE Null

\* the second half of fetchNextAndCacheForFilesPageIterator: the iterator
\* is written to the cache under the endpoint of the link taken at the start
cacheFetched(it, link) ==
  IF ~getIsFileListsCacheEnabled THEN [stores |-> stores, threw |-> FALSE]
  ELSE IF RegexEndpoint(link) = Null THEN [stores |-> stores, threw |-> TRUE]
  ELSE [stores |-> putValue(stores, "fileLists", RegexEndpoint(link).value,
                            FileList(StringifyAll(it.value), link)),
        threw |-> FALSE]

fileFrame == <<config, clock, calls, cacheLog, batchVars, ctlVars, histVars, accessorRun,
              chain>>

\* getIterator(graph, endpoint, storeName, top), up to its request: a fresh
\* entry under `${endpoint}:${top}` gives an iterator made from it,
\* otherwise the first page is asked for
GetIteratorCalls(top) ==
  /\ fileRun.pc = "idle"
  /\ fileRun.done < MaxFileCalls
  /\ \E cacheKey \in {Endpoint \o ":" \o TopString(top)} :
     \E fileList \in {getFileListFromCache(cacheKey)} :
       IF fileList # Null
         THEN /\ ~iterators["replay"].made
              /\ iterators' = [iterators EXCEPT !["replay"] =
                   getFilesPageIteratorFromCache(fileList.files, fileList.nextLink)]
              /\ pageLog' = [pageLog EXCEPT !["replay"].first =
                   Page(ParseAll(fileList.files), Str(fileList.nextLink))]
              /\ fileRun' = [fileRun EXCEPT !.done = @ + 1, !.threw = FALSE]
         ELSE /\ pageLog["live"].first.kind = "none"
              /\ fileRun' = [fileRun EXCEPT !.pc = "create", !.key = cacheKey,
                                            !.threw = FALSE]
              /\ UNCHANGED <<iterators, pageLog>>
  /\ UNCHANGED <<inflight, served, stores, fileFrame>>

GetIteratorCallsAny == \E top \in Tops : GetIteratorCalls(top)

\* getIterator, from the response of its request on: the iterator is made
\* and written to the cache; a rejected request, a response without value
\* and the error that follows it are caught, and null is returned
GetIteratorFetches ==
  /\ fileRun.pc = "create"
  /\ \E response \in Answer(FirstUrl(GraphVersion)) :
       /\ served' = MapSet(served, FirstUrl(GraphVersion), response)
       /\ \E it \in {IF response.kind = "page" THEN createIterator(response, Undefined)
                     ELSE NoIterator} :
            /\ iterators' = [iterators EXCEPT !["live"] = it]
            /\ stores' = IF it.made /\ getIsFileListsCacheEnabled
                 THEN putValue(stores, "fileLists", fileRun.key,
                               FileList(StringifyAll(it.value), nextLinkGetter(it)))
                 ELSE stores
       /\ pageLog' = [pageLog EXCEPT !["live"].first = response,
            !["live"].requests = <<FirstUrl(GraphVersion)>>]
  /\ fileRun' = [fileRun EXCEPT !.pc = "idle", !.key = "", !.done = @ + 1]
  /\ UNCHANGED <<inflight, fileFrame>>

\* fetchNextAndCacheForFilesPageIterator(filesPageIterator), up to its
\* await of next(); for an iterator without a link, to its end
FetchNextCalls(id) ==
  /\ fileRun.pc = "idle"
  /\ fileRun.done < MaxFileCalls
  /\ iterators[id].made
  /\ ~inflight[id].sent
  /\ pageLog[id].calls < MaxIteratorNexts
  /\ \E link \in {nextLinkGetter(iterators[id])} :
       IF hasNext(iterators[id])
         THEN \E req \in {nextRequest(iterators[id])} :
                /\ inflight' = [inflight EXCEPT ![id] = req]
                /\ pageLog' = [pageLog EXCEPT ![id].requests =
                     Append(@, IF req.resource = Undefined THEN "undefined"
                               ELSE RequestUrl(req))]
                /\ fileRun' = [fileRun EXCEPT !.pc = "next", !.id = id,
                                              !.nextLink = link, !.threw = FALSE]
                /\ UNCHANGED stores
         ELSE \E out \in {cacheFetched(iterators[id], link)} :
                /\ stores' = out.stores
                /\ fileRun' = [fileRun EXCEPT !.done = @ + 1, !.threw = out.threw]
                /\ UNCHANGED <<inflight, pageLog>>
  /\ UNCHANGED <<iterators, served, fileFrame>>

FetchNextCallsAny == \E id \in IterIds : FetchNextCalls(id)

\* its next() resolves: the iterator as it is now is written to the cache
FetchNextResolves ==
  /\ fileRun.pc = "next"
  /\ inflight[fileRun.id].resource # Undefined
  /\ \E id \in {fileRun.id} :
     \E response \in Answer(RequestUrl(inflight[id])) \ {Failure} :
     \E out \in {nextResume(iterators[id], response)} :
     \E cached \in {cacheFetched(out.it, fileRun.nextLink)} :
       /\ served' = MapSet(served, RequestUrl(inflight[id]), response)
       /\ iterators' = [iterators EXCEPT ![id] = out.it]
       /\ pageLog' = [pageLog EXCEPT ![id].calls = @ + 1,
            ![id].last = out.last, ![id].returned = out.returned,
            ![id].received = response,
            ![id].sawNoLink = @ \/ (response.kind = "page" /\ response.nextLink = Undefined)]
       /\ inflight' = [inflight EXCEPT ![id] = NoRequest]
       /\ stores' = cached.stores
       /\ fileRun' = [fileRun EXCEPT !.pc = "idle", !.id = "", !.nextLink = "",
                                     !.done = @ + 1, !.threw = cached.threw]
  /\ UNCHANGED fileFrame

\* its next() rejects, and so does it; nothing is written
FetchNextRejects ==
  /\ fileRun.pc = "next"
  /\ \E id \in {fileRun.id} :
       /\ \/ inflight[id].resource = Undefined /\ UNCHANGED served
          \/ /\ inflight[id].resource # Undefined
             /\ Failure \in Answer(RequestUrl(inflight[id]))
             /\ served' = MapSet(served, RequestUrl(inflight[id]), Failure)
       /\ inflight' = [inflight EXCEPT ![id] = NoRequest]
       /\ pageLog' = [pageLog EXCEPT ![id].calls = @ + 1, ![id].last = "threw",
            ![id].returned = <<>>, ![id].received = Failure]
  /\ fileRun' = [fileRun EXCEPT !.pc = "idle", !.id = "", !.nextLink = "",
                                !.done = @ + 1, !.threw = TRUE]
  /\ UNCHANGED <<iterators, stores, fileFrame>>

\* an iterator is rebuilt from the fresh entry under a key of the store:
\* getFileListFromCache, then getFilesPageIteratorFromCache
RebuildFromCache(key) ==
  /\ fileRun.pc = "idle"
  /\ ~iterators["replay"].made
  /\ \E fileList \in {getFileListFromCache(key)} :
       /\ fileList # Null
       /\ iterators' = [iterators EXCEPT !["replay"] =
            getFilesPageIteratorFromCache(fileList.files, fileList.nextLink)]
       /\ pageLog' = [pageLog EXCEPT !["replay"].first =
            Page(ParseAll(fileList.files), Str(fileList.nextLink))]
  /\ UNCHANGED <<inflight, served, stores, fileRun, fileFrame>>

RebuildFromCacheAny == \E key \in DOMAIN stores["fileLists"] : RebuildFromCache(key)

FileNext ==
  \/ GetIteratorCallsAny
  \/ GetIteratorFetches
  \/ FetchNextCallsAny
  \/ FetchNextResolves
  \/ FetchNextRejects
  \/ RebuildFromCacheAny
  \/ NextCallsAny
  \/ NextResolvesAny
  \/ NextRejectsAny

FileSpec == Init /\ [][FileNext]_vars

-----------------------------------------------------------------------------
(***************************************************************************)
(* The accessors that read through the cache: getGroup (part_004),         *)
(* getPersonCardGraphData (part_005), getUserPhoto, myPhoto,               *)
(* getUserPresence and getDriveItemByQuery (graph.photos.ts).  An accessor *)
(* is a function of the call and of the event that resumes it (its start,  *)
(* the outcome of the store operation or of the remote request it          *)
(* awaits); it gives the call at its next await or at its return.          *)
(***************************************************************************)

\* ---- bounds of the accessor workload
MaxAccessorCalls == 2    \* accessor calls started
MaxConfigures == 1       \* changes made to CacheService.config
MaxReadFailures == 1     \* getValue calls that reject
MaxFetchFailures == 1    \* remote requests that reject

\* what a remote resource may hold, and the ETags of a photo
RemoteValues == {"a", "b"}
ETags == {"e1", "e2"}

\* the periods a configuration may set, in clock ticks (0: none set)
Periods == {0, 1}

\* ---- the configuration getters
getIsGroupsCacheEnabled == config.category["groups"].isEnabled /\ config.isEnabled
getGroupsInvalidationTimeNoDefault == config.category["groups"].invalidationPeriod
getGroupsInvalidationTime ==
  IF config.category["groups"].invalidationPeriod # 0
    THEN config.category["groups"].invalidationPeriod
    ELSE config.defaultInvalidationPeriod
getIsPhotosCacheEnabled == config.category["photos"].isEnabled /\ config.isEnabled
getPhotoInvalidationTime ==
  IF config.category["photos"].invalidationPeriod # 0
    THEN config.category["photos"].invalidationPeriod
    ELSE config.defaultInvalidationPeriod
getIsPresenceCacheEnabled == config.category["presence"].isEnabled /\ config.isEnabled
getPresenceInvalidationTime ==
  IF config.category["presence"].invalidationPeriod # 0
    THEN config.category["presence"].invalidationPeriod
    ELSE config.defaultInvalidationPeriod
getIsFilesCacheEnabled == config.category["files"].isEnabled /\ config.isEnabled
getFileInvalidationTime ==
  IF config.category["files"].invalidationPeriod # 0
    THEN config.category["files"].invalidationPeriod
    ELSE config.defaultInvalidationPeriod
getCardStateInvalidationTime ==
  IF config.category["users"].invalidationPeriod # 0
    THEN config.category["users"].invalidationPeriod
    ELSE config.defaultInvalidationPeriod

\* ---- what an accessor does next
AwaitGet(c, store, key) ==
  [c EXCEPT !.pc = "read",
            !.await = [kind |-> "getValue", store |-> store, key |-> key,
                       item |-> Null, resource |-> "", shape |-> ""]]
AwaitPut(c, store, key, item) ==
  [c EXCEPT !.pc = "write",
            !.await = [kind |-> "putValue", store |-> store, key |-> key,
                       item |-> item, resource |-> "", shape |-> ""]]
AwaitFetch(c, at, resource, shape) ==
  [c EXCEPT !.pc = at,
            !.await = [kind |-> "fetch", store |-> "", key |-> "",
                       item |-> Null, resource |-> resource, shape |-> shape]]
Return(c, v) == [c EXCEPT !.pc = "done", !.await = NoAwait, !.outcome = Gave(<<v>>)]
Throw(c, e) == [c EXCEPT !.pc = "done", !.await = NoAwait, !.outcome = Rejected(e)]

\* the events that resume a call
Event(kind, value) == [kind |-> kind, value |-> value]

\* ---- getGroup(graph, id) (part_004:297-329), without requestedProps
getGroup(c, ev) ==
  LET id == c.arg.value
      fetch == AwaitFetch(c, "fetch", "/groups/" \o id, "data")
  IN  CASE ev.kind = "start" ->
             IF getIsGroupsCacheEnabled THEN AwaitGet(c, "groups", id) ELSE fetch
        [] ev.kind = "value" ->
             IF ev.value # Null /\ getGroupsInvalidationTime > clock - ev.value.timeCached
               THEN Return(c, IF ev.value.group # "" THEN Str(JsonParse(ev.value.group))
                              ELSE Null)
               ELSE fetch
        [] ev.kind = "fetched" ->
             IF getIsGroupsCacheEnabled
               THEN AwaitPut([c EXCEPT !.data = ev.value], "groups", id,
                             [group |-> JsonStringify(ev.value.value), timeCached |-> 0])
               ELSE Return(c, ev.value)
        [] ev.kind = "written" -> Return(c, c.data)
        [] OTHER -> Throw(c, ev.value)

\* ---- getUserPresence(graph, userId?) (graph.photos.ts:384-404)
presenceKeyRaw(c) == c.arg.value
presenceKey(c) == IF ToBoolean(c.arg) THEN c.arg.value ELSE "me"

getUserPresence(c, ev) ==
  LET fetch == AwaitFetch(c, "fetch",
                 IF ToBoolean(c.arg) THEN "/users/" \o c.arg.value \o "/presence"
                 ELSE "/me/presence", "data")
  IN  CASE ev.kind = "start" ->
             IF getIsPresenceCacheEnabled
               THEN AwaitGet(c, "presence", presenceKey(c)) ELSE fetch
        [] ev.kind = "value" ->
             IF ev.value # Null /\ getPresenceInvalidationTime > clock - ev.value.timeCached
               THEN Return(c, Str(JsonParse(ev.value.presence)))
               ELSE fetch
        [] ev.kind = "fetched" ->
             IF getIsPresenceCacheEnabled
               THEN AwaitPut([c EXCEPT !.data = ev.value], "presence", presenceKey(c),
                             [presence |-> JsonStringify(ev.value.value), timeCached |-> 0])
               ELSE Return(c, ev.value)
        [] ev.kind = "written" -> Return(c, c.data)
        [] OTHER -> Throw(c, ev.value)

\* ---- getDriveItemByQuery(graph, resource) (graph.photos.ts:615-639) with
\* getFileFromCache (graph.photos.ts:1116-1127)
getDriveItemByQuery(c, ev) ==
  LET resource == c.arg.value
      fetch == AwaitFetch(c, "fetch", resource, "data")
  IN  CASE ev.kind = "start" ->
             IF getIsFilesCacheEnabled THEN AwaitGet(c, "fileQueries", resource) ELSE fetch
        [] ev.kind = "value" ->
             IF ev.value # Null /\ getFileInvalidationTime > clock - ev.value.timeCached
               THEN Return(c, Str(JsonParse(ev.value.file)))
               ELSE fetch
        [] ev.kind = "readFail" -> Throw(c, ev.value)
        [] ev.kind = "fetched" ->
             IF getIsFilesCacheEnabled
               THEN AwaitPut([c EXCEPT !.data = ev.value], "fileQueries", resource,
                             [file |-> JsonStringify(ev.value.value), timeCached |-> 0])
               ELSE Return(c, ev.value)
        [] ev.kind = "fetchFail" -> Return(c, Null)
        [] ev.kind = "written" -> Return(c, c.data)

\* ---- getPersonCardGraphData(graph, personDetails, isMe) (part_005:46-122);
\* its batch and its profile request are one remote request here, whose
\* failure is caught and leaves the data empty
getPersonCardGraphData(c, ev) ==
  LET userId == c.arg.value
  IN  CASE ev.kind = "start" -> AwaitGet(c, "cardState", userId)
        [] ev.kind = "value" ->
             IF ev.value # Null /\ getCardStateInvalidationTime > clock - ev.value.timeCached
               THEN Return(c, Str(ev.value.state))
               ELSE AwaitFetch(c, "fetch", "/$batch", "data")
        [] ev.kind = "readFail" -> Throw(c, ev.value)
        [] ev.kind = "fetched" ->
             AwaitPut([c EXCEPT !.data = ev.value], "cardState", userId,
                      [state |-> ev.value.value, timeCached |-> 0])
        [] ev.kind = "fetchFail" ->
             AwaitPut([c EXCEPT !.data = Str("{}")], "cardState", userId,
                      [state |-> "{}", timeCached |-> 0])
        [] ev.kind = "written" -> Return(c, c.data)

\* ---- the photos
\* a CachePhoto
CachePhoto(eTag, photo) == [eTag |-> eTag, photo |-> photo, timeCached |-> 0]

\* getPhotoForResource (graph.photos.ts:60-83), from the response on: 404
\* gives a photo that can be cached, another failure null
PhotoDetails(response) ==
  IF response = Null THEN Null
  ELSE IF response.value = "404" THEN CachePhoto(Null, Null)
  ELSE CachePhoto(Str(response.value), Str("img-" \o response.value))

\* response['@odata.mediaEtag'] !== photoDetails.eTag ||
\* (response['@odata.mediaEtag'] === null && photoDetails.eTag === null)
ETagChanged(response, photoDetails) ==
  \/ Str(response.value) # photoDetails.eTag
  \/ (Str(response.value) = Null /\ photoDetails.eTag = Null)

\* photoDetails ? photoDetails.photo : null
PhotoOf(photoDetails) == IF photoDetails # Null THEN photoDetails.photo ELSE Null

\* ---- getUserPhoto(graph, userId) (graph.photos.ts:119-154)
getUserPhoto(c, ev) ==
  LET userId == c.arg.value
      photo(cc) == AwaitFetch(cc, "photo", "users/" \o userId \o "/photo/$value", "photo")
      finish(cc, photoDetails) ==
        IF getIsPhotosCacheEnabled /\ photoDetails # Null
          THEN AwaitPut([cc EXCEPT !.data = photoDetails], "users", userId, photoDetails)
          ELSE Return(cc, PhotoOf(photoDetails))
  IN  CASE ev.kind = "start" ->
             IF getIsPhotosCacheEnabled THEN AwaitGet(c, "users", userId) ELSE photo(c)
        [] ev.kind = "value" ->
             IF ev.value # Null /\ getPhotoInvalidationTime > clock - ev.value.timeCached
               THEN Return(c, ev.value.photo)
             ELSE IF ev.value # Null
               THEN AwaitFetch([c EXCEPT !.entry = ev.value], "meta",
                               "users/" \o userId \o "/photo", "meta")
             ELSE photo([c EXCEPT !.entry = Null])
        [] ev.kind = "readFail" -> Throw(c, ev.value)
        [] ev.kind = "fetched" /\ c.pc = "meta" ->
             IF ETagChanged(ev.value, c.entry)
               THEN photo([c EXCEPT !.entry = Null])
               ELSE finish(c, c.entry)
        [] ev.kind = "fetchFail" /\ c.pc = "meta" -> Return(c, Null)
        [] ev.kind = "fetched" /\ c.pc = "photo" -> finish(c, PhotoDetails(ev.value))
        [] ev.kind = "fetchFail" /\ c.pc = "photo" -> finish(c, Null)
        [] ev.kind = "written" -> Return(c, PhotoOf(c.data))

\* ---- myPhoto(graph) (graph.photos.ts:162-191).  Without a cached photo
\* photoDetails is undefined (cache disabled) or null (nothing stored), and
\* reading photoDetails.eTag throws inside the try: null is returned.
myPhoto(c, ev) ==
  LET meta(cc) == AwaitFetch(cc, "meta", "me/photo", "meta")
      finish(cc, photoDetails) ==
        IF getIsPhotosCacheEnabled
          THEN AwaitPut([cc EXCEPT !.data = photoDetails], "users", "me",
                        IF photoDetails # Null THEN photoDetails
                        ELSE CachePhoto(Undefined, Undefined))
          ELSE Return(cc, PhotoOf(photoDetails))
  IN  CASE ev.kind = "start" ->
             IF getIsPhotosCacheEnabled THEN AwaitGet(c, "users", "me") ELSE meta(c)
        [] ev.kind = "value" ->
             IF ev.value # Null /\ getPhotoInvalidationTime > clock - ev.value.timeCached
               THEN Return(c, ev.value.photo)
               ELSE meta([c EXCEPT !.entry = ev.value])
        [] ev.kind = "readFail" -> Throw(c, ev.value)
        [] ev.kind = "fetched" /\ c.pc = "meta" ->
             IF c.entry \in {Null, Undefined} THEN Return(c, Null)
             ELSE IF ETagChanged(ev.value, c.entry)
               THEN AwaitFetch([c EXCEPT !.entry = Null], "photo", "me/photo/$value", "photo")
               ELSE finish(c, c.entry)
        [] ev.kind = "fetchFail" /\ c.pc = "meta" -> Return(c, Null)
        [] ev.kind = "fetched" /\ c.pc = "photo" -> finish(c, PhotoDetails(ev.value))
        [] ev.kind = "fetchFail" /\ c.pc = "photo" -> finish(c, Null)
        [] ev.kind = "written" -> Return(c, PhotoOf(c.data))

\* ---- lists: the insight files and the group queries
\* ---- bounds of the list workload
MaxListTop == 2          \* the `top` argument of findGroups and findGroupsFromGroup

\* a JavaScript array
List(seq) == [type |-> "array", value |-> seq]

\* Array.prototype.join(sep) of strings
RECURSIVE Join(_, _)
Join(seq, sep) ==
  IF seq = <<>> THEN ""
  ELSE IF Len(seq) = 1 THEN seq[1]
  ELSE seq[1] \o sep \o Join(Tail(seq), sep)

\* Array.prototype.slice(from, to), 0 <= from <= to
Slice(seq, from, to) == SubSeq(seq, from + 1, Min(to, Len(seq)))

\* Array.prototype.includes(x)
HasElement(seq, x) == \E k \in 1..Len(seq) : seq[k] = x

\* the loop of part_004:160-169: each group is pushed unless a group with
\* its id is there already
RECURSIVE PushNew(_, _)
PushNew(acc, seq) ==
  IF seq = <<>> THEN acc
  ELSE PushNew(IF HasElement(acc, Head(seq)) THEN acc ELSE Append(acc, Head(seq)),
               Tail(seq))

\* .reduce((a, b) => a.concat(b), [])
RECURSIVE Flatten(_)
Flatten(lists) == IF lists = <<>> THEN <<>> ELSE Head(lists) \o Flatten(Tail(lists))

\* the tops and group types the group queries are made with
ListTops == 1..MaxListTop
GroupTypeLists == {<<"any">>, <<"unified", "security">>}
GroupsRequests == [top : ListTops, groupTypes : GroupTypeLists]

\* the groups of the directory that match the query, by type, in the order
\* the endpoint lists them
GroupsOfType(type) ==
  CASE type = "unified" -> <<"g1", "g2">>
    [] type = "security" -> <<"g2", "g3">>
    [] OTHER -> <<"g1", "g2", "g3">>

\* what identifies a group request to the remote end: its $top and the types
\* it filters by
GroupsShape(top, groupTypes) == "groups/" \o ToString(top) \o "/" \o Join(groupTypes, "+")

\* the answer to a group request: for each type filtered by (one sub-request
\* each), the first `top` groups of that type
GroupsAnswer(top, groupTypes) ==
  List([k \in 1..Len(groupTypes) |-> Slice(GroupsOfType(groupTypes[k]), 0, top)])

\* ---- getMyInsightsFiles (graph.photos.ts:909-938) and getUserInsightsFiles
\* (graph.photos.ts:941-985), with getFileListFromCache (1129-1143) and
\* getDriveItemsByInsights (1047-1095); the latter's batch and its fallback
\* are one remote request here, rejecting when both fail.  The bodies differ
\* in the endpoint, in the key read and in the key written.
insightsFiles(c, ev, endpoint, readKey, writeKey) ==
  LET fetch == AwaitFetch(c, "fetch", endpoint, "data")
      finish(cc, result) ==
        IF getIsFileListsCacheEnabled
          THEN AwaitPut([cc EXCEPT !.data = List(result)], "insightfileLists", writeKey,
                        [files |-> StringifyAll(result), timeCached |-> 0])
          ELSE Return(cc, List(result))
  IN  CASE ev.kind = "start" ->
             IF getIsFileListsCacheEnabled
               THEN AwaitGet(c, "insightfileLists", readKey) ELSE fetch
        [] ev.kind = "value" ->
             IF ev.value # Null /\ getFileListInvalidationTime > clock - ev.value.timeCached
               THEN Return(c, List(ParseAll(ev.value.files)))
               ELSE fetch
        [] ev.kind = "readFail" -> Throw(c, ev.value)
        [] ev.kind = "fetched" /\ c.pc = "fetch" ->
             AwaitFetch(c, "items", "/$batch", "data")
        [] ev.kind = "fetchFail" /\ c.pc = "fetch" -> finish(c, <<>>)
        [] ev.kind = "fetched" /\ c.pc = "items" -> finish(c, <<ev.value.value>>)
        [] ev.kind = "fetchFail" /\ c.pc = "items" -> Throw(c, ev.value)
        [] ev.kind = "written" -> Return(c, c.data)

\* `/me/insights/${insightType}`
MyInsightsEndpoint(insightType) == "/me/insights/" \o insightType

getMyInsightsFiles(c, ev) ==
  insightsFiles(c, ev, MyInsightsEndpoint(c.arg.insightType),
                MyInsightsEndpoint(c.arg.insightType),
                MyInsightsEndpoint(c.arg.insightType))

\* the endpoint and the filter of getUserInsightsFiles
UserInsightsEndpoint(userId, insightType) ==
  IF insightType = "shared" THEN "/me/insights/shared"
  ELSE "/users/" \o userId \o "/insights/" \o insightType
UserInsightsFilter(userId, insightType) ==
  IF insightType = "shared"
    THEN "((lastshared/sharedby/id eq '" \o userId
         \o "') and (resourceReference/type eq 'microsoft.graph.driveItem'))"
    ELSE "resourceReference/type eq 'microsoft.graph.driveItem'"

\* `${endpoint}?$filter=${filter}`
UserInsightsKey(userId, insightType) ==
  UserInsightsEndpoint(userId, insightType) \o "?$filter="
    \o UserInsightsFilter(userId, insightType)

getUserInsightsFiles(c, ev) ==
  insightsFiles(c, ev, UserInsightsEndpoint(c.arg.userId, c.arg.insightType),
                UserInsightsKey(c.arg.userId, c.arg.insightType),
                UserInsightsEndpoint(c.arg.userId, c.arg.insightType))

\* ---- findGroups(graph, query, top, groupTypes) (part_004:95-208), without
\* groupFilters
\* `${query ? query : '*'}*${groupTypesString}*${groupFilters}:${top}`
findGroupsKey(query, top, groupTypes) ==
  (IF query # "" THEN query ELSE "*") \o "*" \o Join(groupTypes, "+") \o "*" \o ""
    \o ":" \o ToString(top)

\* a CacheGroupQuery
CacheGroupQuery(groups, top) ==
  [groups |-> StringifyAll(groups), top |-> top, timeCached |-> 0]

\* cacheGroupQuery.groups.map(x => JSON.parse(x)).slice(0, top + 1)
CachedGroups(cacheGroupQuery, top) ==
  Slice(ParseAll(cacheGroupQuery.groups), 0, top + 1)

findGroups(c, ev) ==
  LET a == c.arg
      key == findGroupsKey(a.query, a.top, a.groupTypes)
      shape == GroupsShape(a.top, a.groupTypes)
      remote == IF ~HasElement(a.groupTypes, "any")
                  THEN AwaitFetch(c, "batch", "/$batch", shape)
                  ELSE AwaitFetch(c, "fetch", "groups", shape)
  IN  CASE ev.kind = "start" ->
             IF getIsGroupsCacheEnabled THEN AwaitGet(c, "groupsQuery", key) ELSE remote
        [] ev.kind = "value" ->
             IF /\ ev.value # Null
                /\ getGroupsInvalidationTime > clock - ev.value.timeCached
                /\ ev.value.top >= a.top
               THEN Return(c, List(CachedGroups(ev.value, a.top)))
               ELSE remote
        [] ev.kind = "readFail" -> Throw(c, ev.value)
        [] ev.kind = "fetched" /\ c.pc = "batch" ->
             Return(c, List(PushNew(<<>>, Flatten(ev.value.value))))
        [] ev.kind = "fetchFail" /\ c.pc = "batch" ->
             AwaitFetch(c, "individual", "groups", shape)
        [] ev.kind = "fetched" /\ c.pc = "individual" ->
             Return(c, List(Flatten(ev.value.value)))
        [] ev.kind = "fetchFail" /\ c.pc = "individual" -> Return(c, List(<<>>))
        [] ev.kind = "fetched" /\ c.pc = "fetch" ->
             IF getIsGroupsCacheEnabled
               THEN AwaitPut([c EXCEPT !.data = List(ev.value.value[1])], "groupsQuery",
                             key, CacheGroupQuery(ev.value.value[1], a.top))
               ELSE Return(c, List(ev.value.value[1]))
        [] ev.kind = "fetchFail" /\ c.pc = "fetch" -> Throw(c, ev.value)
        [] ev.kind = "written" -> Return(c, c.data)

\* ---- findGroupsFromGroup(graph, query, groupId, top) (part_004:222-288),
\* not transitive, any group type
\* `${groupId}:${query || '*'}:${groupTypesString}:${transitive}`
findGroupsFromGroupKey(groupId, query, groupTypes, transitive) ==
  groupId \o ":" \o (IF query # "" THEN query ELSE "*") \o ":"
    \o Join(groupTypes, "+") \o ":" \o (IF transitive THEN "true" ELSE "false")

findGroupsFromGroup(c, ev) ==
  LET a == c.arg
      key == findGroupsFromGroupKey(a.groupId, a.query, a.groupTypes, FALSE)
      remote == AwaitFetch(c, "fetch", "groups/" \o a.groupId
                             \o "/members/microsoft.graph.group",
                           GroupsShape(a.top, a.groupTypes))
  IN  CASE ev.kind = "start" ->
             IF getIsGroupsCacheEnabled THEN AwaitGet(c, "groupsQuery", key) ELSE remote
        [] ev.kind = "value" ->
             IF /\ ev.value # Null
                /\ getGroupsInvalidationTime > clock - ev.value.timeCached
                /\ ev.value.top >= a.top
               THEN Return(c, List(CachedGroups(ev.value, a.top)))
               ELSE remote
        [] ev.kind = "readFail" -> Throw(c, ev.value)
        [] ev.kind = "fetched" ->
             IF getIsGroupsCacheEnabled
               THEN AwaitPut([c EXCEPT !.data = List(ev.value.value[1])], "groupsQuery",
                             key, CacheGroupQuery(ev.value.value[1], a.top))
               ELSE Return(c, List(ev.value.value[1]))
        [] ev.kind = "fetchFail" -> Throw(c, ev.value)
        [] ev.kind = "written" -> Return(c, c.data)

\* ---- the calls
\* the accessors and the arguments they are called with
CacheAccessors ==
  {[name |-> "getGroup", arg |-> Str("g1")],
   [name |-> "getUserPresence", arg |-> Str("u1")],
   [name |-> "getUserPresence", arg |-> Undefined],
   [name |-> "getDriveItemByQuery", arg |-> Str("/me/drive/items/1")],
   [name |-> "getPersonCardGraphData", arg |-> Str("u1")],
   [name |-> "getUserPhoto", arg |-> Str("u1")],
   [name |-> "myPhoto", arg |-> Undefined]}

\* the accessor of a call resumes with an event
Step(c, ev) ==
  CASE c.name = "getGroup" -> getGroup(c, ev)
    [] c.name = "getUserPresence" -> getUserPresence(c, ev)
    [] c.name = "getDriveItemByQuery" -> getDriveItemByQuery(c, ev)
    [] c.name = "getPersonCardGraphData" -> getPersonCardGraphData(c, ev)
    [] c.name = "getUserPhoto" -> getUserPhoto(c, ev)
    [] c.name = "myPhoto" -> myPhoto(c, ev)
    [] c.name = "getMyInsightsFiles" -> getMyInsightsFiles(c, ev)
    [] c.name = "getUserInsightsFiles" -> getUserInsightsFiles(c, ev)
    [] c.name = "findGroups" -> findGroups(c, ev)
    [] c.name = "findGroupsFromGroup" -> findGroupsFromGroup(c, ev)

\* history: the store operation or the remote request the call now awaits
\* is counted
Counted(c) ==
  [c EXCEPT !.storeOps = @ + (IF c.await.kind \in {"getValue", "putValue"} THEN 1 ELSE 0),
            !.fetches = @ + (IF c.await.kind = "fetch" THEN 1 ELSE 0)]

\* the category whose flags and period govern an accessor, and whether the
\* cache is enabled for that category
CategoryOf(name) ==
  CASE name \in {"getGroup", "findGroups", "findGroupsFromGroup"} -> "groups"
    [] name \in {"getMyInsightsFiles", "getUserInsightsFiles"} -> "fileLists"
    [] name = "getUserPresence" -> "presence"
    [] name = "getDriveItemByQuery" -> "files"
    [] name = "getPersonCardGraphData" -> "users"
    [] name \in {"getUserPhoto", "myPhoto"} -> "photos"

EnabledFor(name) == config.isEnabled /\ config.category[CategoryOf(name)].isEnabled

\* what the remote end may answer to a request: data, the metadata of a
\* photo (its ETag), or for the photo itself the photo, 404 or another
\* failure status (null)
RemoteResponses(shape) ==
  CASE shape = "data" -> {Str(v) : v \in RemoteValues}
    [] shape = "meta" -> {[type |-> "meta", value |-> e] : e \in ETags}
    [] shape = "photo" -> {[type |-> "photo", value |-> e] : e \in ETags \cup {"404"}}
                          \cup {Null}
    [] OTHER -> {GroupsAnswer(r.top, r.groupTypes) :
                   r \in {q \in GroupsRequests : GroupsShape(q.top, q.groupTypes) = shape}}

cacheFrame == <<pageVars, fileRun, batchVars, ctlVars, histVars, accessorRun, chain>>

\* an accessor is called and runs to its first await
CacheCall(p, a) ==
  /\ calls[p].pc \in {"idle", "done"}
  /\ cacheLog.started < MaxAccessorCalls
  /\ \E c \in {Step([NoCall EXCEPT !.name = a.name, !.arg = a.arg,
                                   !.enabled = EnabledFor(a.name)],
                    Event("start", Undefined))} :
       calls' = [calls EXCEPT ![p] =
         Counted([c EXCEPT !.cond = IF c.await.kind = "getValue" THEN "" ELSE "disabled"])]
  /\ cacheLog' = [cacheLog EXCEPT !.started = @ + 1]
  /\ UNCHANGED <<config, clock, stores, cacheFrame>>

CacheCallAny == \E p \in Pids, a \in CacheAccessors : CacheCall(p, a)

\* the getValue a call awaits resolves
StoreReadResolves(p) ==
  /\ calls[p].await.kind = "getValue"
  /\ \E found \in {getValue(calls[p].await.store, calls[p].await.key)} :
     \E c \in {Step(calls[p], Event("value", found))} :
       calls' = [calls EXCEPT ![p] =
         Counted([c EXCEPT !.found = found, !.readAt = clock,
                           !.readKey = [store |-> calls[p].await.store,
                                        key |-> calls[p].await.key],
                           !.cond = IF c.pc = "done" THEN "fresh"
                                    ELSE IF found = Null THEN "absent" ELSE "stale"])]
  /\ UNCHANGED <<config, clock, stores, cacheLog, cacheFrame>>

StoreReadResolvesAny == \E p \in Pids : StoreReadResolves(p)

\* the getValue a call awaits rejects
StoreReadRejects(p) ==
  /\ calls[p].await.kind = "getValue"
  /\ cacheLog.readFailures < MaxReadFailures
  /\ \E c \in {Step(calls[p], Event("readFail", "StorageError"))} :
       calls' = [calls EXCEPT ![p] = Counted([c EXCEPT !.cond = "readFail"])]
  /\ cacheLog' = [cacheLog EXCEPT !.readFailures = @ + 1]
  /\ UNCHANGED <<config, clock, stores, cacheFrame>>

StoreReadRejectsAny == \E p \in Pids : StoreReadRejects(p)

\* the putValue a call awaits resolves: the item is in the store
StoreWriteResolves(p) ==
  /\ calls[p].await.kind = "putValue"
  /\ \E w \in {calls[p].await} :
       /\ stores' = putValue(stores, w.store, w.key, w.item)
       /\ cacheLog' = [cacheLog EXCEPT !.lastPut =
            MapSet(@, <<w.store, w.key>>, [item |-> w.item, at |-> clock, by |-> p])]
  /\ \E c \in {Step(calls[p], Event("written", Undefined))} :
       calls' = [calls EXCEPT ![p] = Counted(c)]
  /\ UNCHANGED <<config, clock, cacheFrame>>

StoreWriteResolvesAny == \E p \in Pids : StoreWriteResolves(p)

\* the remote request a call awaits resolves
RemoteResolves(p) ==
  /\ calls[p].await.kind = "fetch"
  /\ \E response \in RemoteResponses(calls[p].await.shape) :
     \E c \in {Step(calls[p], Event("fetched", response))} :
       calls' = [calls EXCEPT ![p] =
         Counted([c EXCEPT !.fetched = response,
                           !.remoteFailed =
                              @ \/ response = Null
                                \/ (response.type = "photo" /\ response.value = "404")])]
  /\ UNCHANGED <<config, clock, stores, cacheLog, cacheFrame>>

RemoteResolvesAny == \E p \in Pids : RemoteResolves(p)

\* the remote request a call awaits rejects
RemoteRejects(p) ==
  /\ calls[p].await.kind = "fetch"
  /\ cacheLog.fetchFailures < MaxFetchFailures
  /\ \E c \in {Step(calls[p], Event("fetchFail", "NetworkError"))} :
       calls' = [calls EXCEPT ![p] = Counted([c EXCEPT !.remoteFailed = TRUE])]
  /\ cacheLog' = [cacheLog EXCEPT !.fetchFailures = @ + 1]
  /\ UNCHANGED <<config, clock, stores, cacheFrame>>

RemoteRejectsAny == \E p \in Pids : RemoteRejects(p)

\* the application changes one setting of CacheService.config (one that an
\* accessor reads), before it calls the accessors
Settings ==
  {[config EXCEPT !.isEnabled = FALSE]}
  \cup {[config EXCEPT !.defaultInvalidationPeriod = 1]}
  \cup {[config EXCEPT !.category[CategoryOf(a.name)].isEnabled = FALSE] :
          a \in CacheAccessors}
  \cup {[config EXCEPT !.category[CategoryOf(a.name)].invalidationPeriod = period] :
          a \in CacheAccessors, period \in Periods \ {0}}

Configure ==
  /\ cacheLog.started = 0
  /\ cacheLog.configures < MaxConfigures
  /\ config' \in Settings \ {config}
  /\ cacheLog' = [cacheLog EXCEPT !.configures = @ + 1]
  /\ UNCHANGED <<clock, stores, calls, cacheFrame>>

CacheNext ==
  \/ CacheCallAny
  \/ StoreReadResolvesAny
  \/ StoreReadRejectsAny
  \/ StoreWriteResolvesAny
  \/ RemoteResolvesAny
  \/ RemoteRejectsAny
  \/ Configure
  \/ Tick

CacheSpec == Init /\ [][CacheNext]_vars

-----------------------------------------------------------------------------
(***************************************************************************)
(* The accessors of lists (insight files and group queries), with getGroup *)
(* and getPersonCardGraphData, under the configuration the program starts  *)
(* with (every cache enabled).                                             *)
(***************************************************************************)

ListAccessors ==
  {[name |-> "getMyInsightsFiles", arg |-> [insightType |-> "shared"]],
   [name |-> "getUserInsightsFiles", arg |-> [userId |-> "u1", insightType |-> "shared"]],
   [name |-> "getGroup", arg |-> Str("g1")],
   [name |-> "getPersonCardGraphData", arg |-> Str("u1")]}
  \cup {[name |-> "findGroups",
         arg |-> [query |-> "ab", top |-> 1, groupTypes |-> types]] :
          types \in GroupTypeLists}
  \cup {[name |-> "findGroupsFromGroup",
         arg |-> [groupId |-> "g0", query |-> "ab", top |-> top,
                  groupTypes |-> <<"any">>]] : top \in ListTops}

ListCallAny == \E p \in Pids, a \in ListAccessors : CacheCall(p, a)

ListNext ==
  \/ ListCallAny
  \/ StoreReadResolvesAny
  \/ StoreReadRejectsAny
  \/ StoreWriteResolvesAny
  \/ RemoteResolvesAny
  \/ RemoteRejectsAny
  \/ Tick

ListSpec == Init /\ [][ListNext]_vars

-----------------------------------------------------------------------------
(***************************************************************************)
(* chainMiddleware(...middleware) (chainMiddleware.ts:17-28): each          *)
(* middleware given is linked to the one after it, and the first is        *)
(* returned.                                                               *)
(***************************************************************************)

\* ---- bounds of the chain workload
MaxMiddleware == 3
MiddlewareNames == {"m0", "m1", "m2"}

\* what a caller may pass in one position: a middleware with or without a
\* setNext method, or undefined (part_007:57-63)
MiddlewareArgs ==
  {Middleware(n, b) : n \in MiddlewareNames, b \in BOOLEAN} \cup {Undefined}

\* the argument lists: up to MaxMiddleware arguments, no object passed twice
MiddlewareLists ==
  {m \in UNION {[1..n -> MiddlewareArgs] : n \in 0..MaxMiddleware} :
     \A j, k \in 1..Len(m) :
       (j # k /\ m[j].type = "middleware" /\ m[k].type = "middleware")
         => m[j].value # m[k].value}

\* lines 18-19: rootMiddleware = middleware[0] (undefined for no argument),
\* current = rootMiddleware; line 20: i = 1
chainMiddlewareEnter(middleware) ==
  [pc |-> "loop", middleware |-> middleware,
   rootMiddleware |-> IF Len(middleware) > 0 THEN middleware[1] ELSE Undefined,
   current |-> IF Len(middleware) > 0 THEN middleware[1] ELSE Undefined,
   i |-> 1, links |-> <<>>,
   outcome |-> [kind |-> "none", value |-> Undefined]]

\* one round of the loop with current left where it was
chainMiddlewareLoopKeepsCurrent(ch) ==
  IF ch.current.type = "undefined"
  THEN [ch EXCEPT !.pc = "done",
                  !.outcome = [kind |-> "threw", value |-> Str("TypeError")]]
  ELSE [ch EXCEPT
          !.links = IF ch.current.setNext
                    THEN Append(@, [on |-> ch.current, next |-> ch.middleware[ch.i + 1]])
                    ELSE @,
          !.i = @ + 1]

\* lines 20-26, one round of the loop for i < middleware.length:
\* next = middleware[i] (the module's sequences start at 1, the code's
\* arrays at 0); current.setNext(next) if current has a setNext; current =
\* next.  Reading current.setNext of an undefined current throws a TypeError.
chainMiddlewareLoop(ch) ==
  IF ch.current.type = "undefined"
  THEN [ch EXCEPT !.pc = "done",
                  !.outcome = [kind |-> "threw", value |-> Str("TypeError")]]
  ELSE [ch EXCEPT
          !.links = IF ch.current.setNext
                    THEN Append(@, [on |-> ch.current, next |-> ch.middleware[ch.i + 1]])
                    ELSE @,
          !.current = ch.middleware[ch.i + 1],
          !.i = @ + 1]

\* line 27: return rootMiddleware
chainMiddlewareReturn(ch) ==
  [ch EXCEPT !.pc = "done",
             !.outcome = [kind |-> "returned", value |-> ch.rootMiddleware]]

chainFrame == <<batchVars, ctlVars, histVars, accessorRun, pageVars, cacheVars>>

\* chainMiddleware is called
ChainCalls ==
  /\ chain.pc = "idle"
  /\ \E middleware \in MiddlewareLists : chain' = chainMiddlewareEnter(middleware)
  /\ UNCHANGED chainFrame

\* one round of its loop
ChainLoops ==
  /\ chain.pc = "loop"
  /\ chain.i < Len(chain.middleware)
  /\ chain' = chainMiddlewareLoop(chain)
  /\ UNCHANGED chainFrame

\* the loop is over: it returns
ChainReturns ==
  /\ chain.pc = "loop"
  /\ chain.i >= Len(chain.middleware)
  /\ chain' = chainMiddlewareReturn(chain)
  /\ UNCHANGED chainFrame

ChainNext ==
  \/ ChainCalls
  \/ ChainLoops
  \/ ChainReturns

ChainSpec == Init /\ [][ChainNext]_vars

-----------------------------------------------------------------------------
(***************************************************************************)
(* The store contract on its own: reads, writes and clearFilesCache        *)
(* (graph.photos.ts:564-570) on the fileLists store, in any order.         *)
(***************************************************************************)

\* the keys read and written
StoreKeys == {"k1", "k2"}

\* nothing was read under a key since the last write to it
NoRead ==
  [pair |-> FALSE, first |-> Undefined, second |-> Undefined,
   cleared |-> FALSE, others |-> FALSE,
   clearedSince |-> FALSE, othersSince |-> FALSE]

storeFrame == <<config, calls, fileRun, pageVars, batchVars, ctlVars, histVars, accessorRun,
               chain>>

\* getValue(key) is called and resolves.  History: with the read before it
\* (if none was written or forgotten since) it makes a pair of consecutive
\* reads; `cleared` and `others` tell whether the store was cleared and
\* whether other keys were read between the two (`clearedSince` and
\* `othersSince`: since the latest read).
StoreGets(key) ==
  /\ \E found \in {getValue("fileLists", key)} :
     \E reads \in {cacheLog.reads} :
       cacheLog' = [cacheLog EXCEPT !.reads =
         [k \in DOMAIN reads \cup {key} |->
            IF k = key
              THEN IF key \in DOMAIN reads
                     THEN [pair |-> TRUE, first |-> reads[key].second,
                           second |-> found,
                           cleared |-> reads[key].clearedSince,
                           others |-> reads[key].othersSince,
                           clearedSince |-> FALSE, othersSince |-> FALSE]
                     ELSE [NoRead EXCEPT !.second = found]
              ELSE [reads[k] EXCEPT !.othersSince = TRUE]]]
  /\ UNCHANGED <<clock, stores, storeFrame>>

StoreGetsAny == \E key \in StoreKeys : StoreGets(key)

\* putValue(key, item) is called and resolves
StorePuts(key, item) ==
  /\ stores' = putValue(stores, "fileLists", key, item)
  /\ cacheLog' = [cacheLog EXCEPT !.reads =
       [k \in DOMAIN cacheLog.reads \ {key} |-> cacheLog.reads[k]]]
  /\ UNCHANGED <<clock, storeFrame>>

StorePutsAny ==
  \E key \in StoreKeys, v \in RemoteValues :
    StorePuts(key, FileList(<<JsonStringify(v)>>, ""))

\* clearFilesCache(): the fileLists store is cleared
ClearFilesCache ==
  /\ stores' = clearStore(stores, "fileLists")
  /\ cacheLog' = [cacheLog EXCEPT !.reads =
       [k \in DOMAIN cacheLog.reads |-> [cacheLog.reads[k] EXCEPT !.clearedSince = TRUE]]]
  /\ UNCHANGED <<clock, storeFrame>>

StoreNext ==
  \/ StoreGetsAny
  \/ StorePutsAny
  \/ ClearFilesCache
  \/ Tick

StoreSpec == Init /\ [][StoreNext]_vars

TypeOK ==
  /\ pc \in {"idle", "next", "all"}
  /\ epc \in {"none", "delay", "post"}
  /\ Len(allRequests) = nextIndex

----------------------------------------------------------------------------
\* Properties of Batch

QueueSet == {requestsQueue[k] : k \in 1..Len(requestsQueue)}

\* C2: every transport call executeNext() issues carries at most 20
\* sub-requests, whatever the queue's length and the calls and re-enqueues
\* before it.
C2_BatchSize == Len(posted) <= 20

\* a full composite request in flight while more requests wait in the queue
C2_Witness ==
  /\ epc = "post"
  /\ Len(posted) = 20
  /\ Len(requestsQueue) > 0

\* C3: a request answered 429 with Retry-After: N is in no transport call
\* until an executeNext() has suspended for at least N seconds since, and no
\* request added after it is in a transport call while it still waits.
C3_Throttling ==
  epc = "post" =>
    /\ \A i \in PostedIndices :
         fate[i + 1] = "throttled" => owed[i + 1] = 0 /\ timerMs > 0
    /\ \A t \in QueueSet :
         fate[t + 1] = "throttled" => \A j \in PostedIndices : j < t

\* a request throttled with Retry-After: 3 is sent again, after a delay of 3 s
\* or more, in a call with a request that was added after it
C3_Witness ==
  /\ epc = "post"
  /\ timerMs >= 3000
  /\ \E i, j \in PostedIndices : fate[i + 1] = "throttled" /\ fate[j + 1] = "pending" /\ j > i


Indices == 0..(nextIndex - 1)

\* request i is settled by the call that just returned: dropped, or answered
\* 200 and in the returned map under its caller id
Settled(i) ==
  \/ fate[i + 1] = "dropped"
  \/ fate[i + 1] = "ok" /\ Req(i).id \in DOMAIN ret.value

AllReturned == ret.call = "all" /\ ~ret.threw

C5_Terminates ==
  /\ (pc = "all") ~> AllReturned
  /\ [](AllReturned => \A i \in hist.mine : fate[i + 1] \in {"ok", "dropped"})

\* executeAll() returns after two rounds that each throttled a request
C5_Witness ==
  /\ AllReturned
  /\ used.throttles = 2
  /\ hist.posts >= 3

\* C6: a request answered with a status other than 200 and 429 is neither
\* pending nor in flight ever after, its id is in no returned map, and no
\* call throws unless the transport call rejected.
C6_Dropped ==
  /\ \A i \in Indices :
       fate[i + 1] = "dropped" =>
         /\ i \notin QueueSet
         /\ i \notin PostedIndices
         /\ Req(i).id \notin DOMAIN ret.value
  /\ ret.threw => hist.rejectedWith # ""

\* executeAll() returns, not throwing, after a round that followed the one
\* in which a request was dropped
C6_Witness ==
  /\ AllReturned
  /\ \E i \in hist.mine : fate[i + 1] = "dropped" /\ i < 20
  /\ hist.posts >= 2
  /\ Cardinality(DOMAIN ret.value) >= 20

\* C7: when the transport call rejects with e, the call in progress
\* (executeNext, or executeAll through it) rejects with e in the same step,
\* and no further transport call is made.
C7_Propagates ==
  [][hist'.rejectedWith # "" =>
       /\ ret' = Threw(pc, hist'.rejectedWith)
       /\ pc' = "idle" /\ epc' = "none" /\ posted' = <<>>
       /\ hist'.posts = hist.posts]_vars

\* executeAll() rejects with the error of its second transport call
C7_Witness ==
  /\ ret = Threw("all", "ServiceUnavailable")
  /\ hist.rejectedWith = "ServiceUnavailable"
  /\ hist.posts = 2

\* gets, then one executeAll(), every sub-response so far being 200
AllOkScenario ==
  /\ used.allCalls = 1 /\ used.nextCalls = 0 /\ used.lateGets = 0
  /\ used.throttles = 0 /\ used.drops = 0 /\ used.rejects = 0

\* C9: with N requests and only 200 sub-responses, the k-th transport call of
\* executeAll() carries requests 20(k-1)+1 .. min(20k, N) in the order they
\* were added, and executeAll() returns after ceil(N/20) calls a map of N
\* entries.
C9_Rounds ==
  AllOkScenario =>
    /\ epc = "post" =>
         /\ Len(posted) = Min(20, nextIndex - 20 * (hist.posts - 1))
         /\ \A k \in 1..Len(posted) :
              /\ posted[k].id = ToString(20 * (hist.posts - 1) + k - 1)
              /\ posted[k].url = BaseUrl \o Req(20 * (hist.posts - 1) + k - 1).resource
    /\ ret.call = "all" =>
         /\ ~ret.threw
         /\ hist.posts = (nextIndex + 19) \div 20
         /\ DOMAIN ret.value = {Req(i).id : i \in Indices}
         /\ Cardinality(DOMAIN ret.value) = nextIndex

\* executeAll() returns 22 entries after two calls
C9_Witness ==
  /\ AllOkScenario
  /\ AllReturned
  /\ nextIndex = 22
  /\ hist.posts = 2
  /\ Cardinality(DOMAIN ret.value) = 22

\* the step is post() resolving (no get(), no rejection)
Resolves == epc = "post" /\ nextIndex' = nextIndex /\ used'.rejects = used.rejects

\* the requests of the composite request in flight that the step answers 429
ThrottledNow == {i \in PostedIndices : fate'[i + 1] = "throttled"}

\* C10: the queue holds indices of allRequests only; a request answered 200,
\* or with a status other than 200 and 429, is not in the queue; and the
\* requests answered 429 are put at the front of the queue, ahead of every
\* index that was pending.
C10_Queue ==
  /\ [](/\ \A k \in 1..Len(requestsQueue) :
             requestsQueue[k] \in 0..(Len(allRequests) - 1)
        /\ \A i \in Indices : fate[i + 1] \in {"ok", "dropped"} => i \notin QueueSet)
  /\ [][Resolves /\ ThrottledNow # {} =>
          /\ Len(requestsQueue') = Cardinality(ThrottledNow) + Len(requestsQueue)
          /\ {requestsQueue'[k] : k \in 1..Cardinality(ThrottledNow)} = ThrottledNow
          /\ SubSeq(requestsQueue', Cardinality(ThrottledNow) + 1, Len(requestsQueue'))
               = requestsQueue]_vars

\* two throttled requests head the queue, ahead of a request never sent
C10_Witness ==
  /\ Len(requestsQueue) >= 3
  /\ fate[requestsQueue[1] + 1] = "throttled"
  /\ fate[requestsQueue[2] + 1] = "throttled"
  /\ fate[requestsQueue[3] + 1] = "pending"

\* the content the caller is owed for request i: the body the endpoint gave,
\* an image as a data URI, anything else as it is
ExpectedContent(i) ==
  LET answer == ServerOk(BaseUrl \o Req(i).resource)
      type == answer[1]["Content-Type"]
      body == answer[2]
  IN IF body.type = "string" /\ type \in {"image/jpeg", "image/pjpeg", "image/png"}
     THEN Str("data:" \o type \o ";base64," \o body.value)
     ELSE body

\* the requests of the call that were answered 200
AnsweredOk == {i \in hist.mine : fate[i + 1] = "ok"}

\* C1: when executeAll() returns, the map's keys are the ids of the requests
\* that were answered 200 in some round, and each entry's content is the
\* sub-response's decoded body.
C1_ResultMap ==
  AllReturned =>
    /\ DOMAIN ret.value = {Req(i).id : i \in AnsweredOk}
    /\ \A i \in AnsweredOk : ret.value[Req(i).id].content = ExpectedContent(i)

\* what holds of C1: the keys, and the content of every entry but those of
\* string bodies that are no jpeg, pjpeg or png image
C1_ListedBodies ==
  AllReturned =>
    /\ DOMAIN ret.value = {Req(i).id : i \in AnsweredOk}
    /\ \A i \in AnsweredOk :
         \/ ret.value[Req(i).id].content = ExpectedContent(i)
         \/ /\ ExpectedContent(i).type = "string"
            /\ ret.value[Req(i).id].content = Undefined

\* executeAll() returned, after a round that throttled a request, a map with
\* a jpeg photo as a data URI and a text/plain string body without content
C1_Witness ==
  /\ AllReturned
  /\ used.throttles > 0
  /\ \E i \in AnsweredOk :
       ret.value[Req(i).id].content = Str("data:image/jpeg;base64,/9j/4AAQ")
  /\ \E i \in AnsweredOk :
       /\ ExpectedContent(i) = Str("aGVsbG8=")
       /\ ret.value[Req(i).id].content = Undefined

----------------------------------------------------------------------------
\* Properties of the accessors

BatchedResources == [k \in 1..Len(allRequests) |-> allRequests[k].resource]
BatchedKeys == [k \in 1..Len(allRequests) |-> allRequests[k].id]

\* the accessor returned or rejected after its batch.executeAll() rejected
SettledAfterRejection == accessorRun.outcome.settled /\ accessorRun.batchError # ""

\* the accessor issued the batched requests one by one, and, where none of
\* them failed, gave its caller every item
FellBack ==
  /\ accessorRun.individual = BatchedResources
  /\ accessorRun.failed = {} =>
       ~accessorRun.outcome.threw /\ accessorRun.outcome.got = BatchedKeys

\* C8: every accessor that issues its requests through a Batch catches a
\* rejection of batch.executeAll() and issues the same requests one by one,
\* so that the failed batch call neither fails nor empties its result.
C8_AccessorsFallBack == SettledAfterRejection => FellBack

\* what holds of C8: getGroupsForGroupIds, getFilesByQueries and
\* getDriveItemsByInsights fall back to the same requests
C8_ThreeFallBack ==
  (/\ SettledAfterRejection
   /\ accessorRun.name \in
        {"getGroupsForGroupIds", "getFilesByQueries", "getDriveItemsByInsights"})
  => FellBack

\* getGroupsForGroupIds gave both groups after its batch call was rejected
C8_Witness ==
  /\ SettledAfterRejection
  /\ accessorRun.name = "getGroupsForGroupIds"
  /\ accessorRun.failed = {}
  /\ accessorRun.outcome.got = <<"g1", "g2">>


-----------------------------------------------------------------------------
(***************************************************************************)
(* Properties of the page iterator (specification PageSpec).               *)
(***************************************************************************)

\* C11: value is append-only.  A step of next() leaves an iterator's value
\* as it was, or makes it the old value followed by exactly the items that
\* next() returns; nothing is removed, reordered or replaced.
C11_AppendOnly ==
  [][\A id \in IterIds :
       iterators[id].made =>
         \/ iterators'[id].value = iterators[id].value
         \/ /\ pageLog'[id].last = "items"
            /\ pageLog'[id].calls = pageLog[id].calls + 1
            /\ pageLog'[id].returned # <<>>
            /\ iterators'[id].value = iterators[id].value \o pageLog'[id].returned]_vars

\* a second page was appended to a non-empty first one
C11_Witness ==
  /\ iterators["live"].made
  /\ pageLog["live"].last = "items"
  /\ pageLog["live"].first.items # <<>>
  /\ Len(iterators["live"].value) > Len(pageLog["live"].first.items)
  /\ pageLog["live"].calls >= 2

\* a page response was the last thing the latest, completed next() received
ReceivedPage(id) ==
  /\ iterators[id].made
  /\ ~inflight[id].sent
  /\ pageLog[id].received.kind = "page"

\* C12: after any next() completes, hasNext is false exactly when the page
\* response just received carried no continuation link, whatever the number
\* of items on that page; and once a response without a link was received,
\* hasNext is false for good and no later next() issues a request.
C12_HasNextFollowsLink ==
  \A id \in IterIds :
    /\ ReceivedPage(id) =>
         (~hasNext(iterators[id]) <=> pageLog[id].received.nextLink = Undefined)
    /\ pageLog[id].sawNoLink => ~hasNext(iterators[id]) /\ ~inflight[id].sent

\* C12, for the pages that carry items: hasNext follows the link of the page
\* just received, and an iterator whose hasNext is false keeps it false and
\* sends nothing.
C12_NonEmptyPages ==
  /\ [](\A id \in IterIds :
          ReceivedPage(id) /\ pageLog[id].received.items # <<>> =>
            (~hasNext(iterators[id]) <=> pageLog[id].received.nextLink = Undefined))
  /\ [][\A id \in IterIds :
          iterators[id].made /\ ~hasNext(iterators[id]) =>
            ~hasNext(iterators'[id]) /\ ~inflight'[id].sent]_vars

\* next() completed on a page with neither items nor a continuation link
C12_Witness ==
  /\ ReceivedPage("live")
  /\ pageLog["live"].received.items = <<>>
  /\ pageLog["live"].received.nextLink = Undefined
  /\ pageLog["live"].last = "null"

\* the latest next() resolved to null, having had no link to follow or
\* having fetched a page of zero items
ResolvedNull(id) ==
  /\ iterators[id].made
  /\ ~inflight[id].sent
  /\ pageLog[id].last = "null"
  /\ pageLog[id].received.kind \in {"none", "page"}

\* C13: next() resolves to null, without rejecting, both when there is no
\* continuation link and when the fetched page has zero items, and both
\* cases end the iteration alike: value is unchanged and hasNext is false
\* afterwards, so that `while hasNext do next()` stops.
C13_NullEndsIteration ==
  \A id \in IterIds : ResolvedNull(id) => ~hasNext(iterators[id])

\* C13, as far as the iterator goes: a next() that resolves to null leaves
\* the iterator as it was (value and link), and one that had no link to
\* follow leaves hasNext false.
C13_NullKeepsState ==
  /\ [][\A id \in IterIds :
          pageLog'[id].calls # pageLog[id].calls /\ pageLog'[id].last = "null" =>
            iterators'[id] = iterators[id]]_vars
  /\ [](\A id \in IterIds :
          ResolvedNull(id) /\ pageLog[id].received.kind = "none" =>
            ~hasNext(iterators[id]))

\* next() fetched a page of zero items that carries a link, and resolved to null
C13_Witness ==
  /\ ResolvedNull("live")
  /\ pageLog["live"].received.kind = "page"
  /\ pageLog["live"].received.items = <<>>
  /\ pageLog["live"].received.nextLink # Undefined

\* both iterators of a round trip exist and completed the same number of
\* next() calls
InStep ==
  /\ iterators["live"].made /\ iterators["replay"].made
  /\ ~inflight["live"].sent /\ ~inflight["replay"].sent
  /\ pageLog["live"].calls = pageLog["replay"].calls

SameState ==
  /\ iterators["live"].value = iterators["replay"].value
  /\ nextLinkGetter(iterators["live"]) = nextLinkGetter(iterators["replay"])
  /\ hasNext(iterators["live"]) = hasNext(iterators["replay"])
  /\ pageLog["live"].requests = pageLog["replay"].requests
  /\ pageLog["live"].last = pageLog["replay"].last
  /\ pageLog["live"].returned = pageLog["replay"].returned

\* C14: the iterator made by createFromValue(graph, V, L) and the one made
\* by create(graph, request, version) whose first page was (V, L) are in the
\* same state after each subsequent next(): the same requests were issued,
\* and value, nextLink and hasNext are equal, for every version argument of
\* create.
C14_RoundTrip == InStep => SameState

\* C14, when create() works with the version of the graph
C14_SameVersion ==
  InStep /\ iterators["live"].version = GraphVersion => SameState

\* create() was given a version other than the graph's and a request of
\* that version, and both iterators did a next() on a first page with a link
C14_Witness ==
  /\ InStep
  /\ iterators["live"].version # GraphVersion
  /\ pageLog["live"].requests[1] = FirstUrl(iterators["live"].version)
  /\ pageLog["live"].first.nextLink # Undefined
  /\ pageLog["live"].calls >= 1

-----------------------------------------------------------------------------
(***************************************************************************)
(* Properties of the cached file lists (specification FileSpec).           *)
(***************************************************************************)

\* the URL of the page an item came with
PageOf(item) == SubSeq(item, 1, FirstIndex(item, "#") - 1)

\* the link to what follows the items: the one the endpoint put on the
\* page of the last of them ('' when it put none)
LinkAfter(items) ==
  LET link == served[PageOf(items[Len(items)])].nextLink
  IN  IF ToBoolean(link) THEN link.value ELSE ""

\* a cache entry goes on where its items end
EntryContinues(fileList) ==
  fileList.files # <<>> => fileList.nextLink = LinkAfter(ParseAll(fileList.files))

NoDuplicates(seq) == \A i, j \in 1..Len(seq) : seq[i] = seq[j] => i = j

IsPrefix(a, b) == Len(a) <= Len(b) /\ SubSeq(b, 1, Len(a)) = a

\* C15: every entry of the fileLists store, written by getIterator on its
\* first fetch or by fetchNextAndCacheForFilesPageIterator, holds the
\* accumulated items together with the continuation link of what was not
\* fetched yet ('' for an exhausted iterator), so that an iterator rebuilt
\* from an entry and advanced with next() never holds an item twice.
C15_EntryContinues ==
  /\ \A key \in DOMAIN stores["fileLists"] : EntryContinues(stores["fileLists"][key])
  /\ \A id \in IterIds : NoDuplicates(iterators[id].value)

\* C15, for the entry getIterator writes (under `${endpoint}:${top}`): it
\* goes on where its items end; and every entry holds the items an
\* iterator accumulated, in their order
C15_FirstFetchEntry ==
  \A key \in DOMAIN stores["fileLists"] :
    /\ Includes(key, ":") => EntryContinues(stores["fileLists"][key])
    /\ \E id \in IterIds :
         IsPrefix(ParseAll(stores["fileLists"][key].files), iterators[id].value)

\* fetchNextAndCacheForFilesPageIterator wrote an entry holding two pages,
\* an iterator was rebuilt from it, and its next() gave items
C15_Witness ==
  /\ Endpoint \in DOMAIN stores["fileLists"]
  /\ Len(stores["fileLists"][Endpoint].files) > Len(pageLog["live"].first.items)
  /\ pageLog["live"].first.items # <<>>
  /\ iterators["replay"].made
  /\ pageLog["replay"].first.items = ParseAll(stores["fileLists"][Endpoint].files)
  /\ pageLog["replay"].last = "items"

-----------------------------------------------------------------------------
(***************************************************************************)
(* Properties of the accessors over the cache (specification CacheSpec).   *)
(***************************************************************************)

\* C16: an accessor performs no getValue and no putValue unless the global
\* isEnabled flag and the isEnabled flag of its category are both true.
C16_BypassWhenDisabled ==
  \A p \in Pids : calls[p].storeOps > 0 => calls[p].enabled

\* C16, for the accessors other than getPersonCardGraphData
C16_OthersBypass ==
  \A p \in Pids :
    calls[p].name # "getPersonCardGraphData" /\ calls[p].storeOps > 0 =>
      calls[p].enabled

\* getPersonCardGraphData ran to its end with the cache disabled globally
C16_Witness ==
  \E p \in Pids :
    /\ calls[p].name = "getPersonCardGraphData"
    /\ ~config.isEnabled
    /\ calls[p].outcome.settled

\* the call ended after something other than a fresh hit, and with every
\* remote request of it answered with data
Missed(c) ==
  /\ c.outcome.settled
  /\ c.cond \in {"disabled", "readFail", "absent", "stale"}
  /\ ~c.remoteFailed

\* what the remote end gave the call: the data or the photo it sent, or
\* the cached photo that it confirmed by its ETag
FetchedData(c) ==
  CASE c.fetched.type = "string" -> c.fetched
    [] c.fetched.type = "photo" -> Str("img-" \o c.fetched.value)
    [] c.fetched.type = "meta" /\ c.cond = "stale" /\ c.found.eTag = Str(c.fetched.value) ->
         c.found.photo
    [] OTHER -> Undefined

FellThrough(c) ==
  /\ ~c.outcome.threw
  /\ c.outcome.got = <<FetchedData(c)>>
  /\ FetchedData(c) \notin {Null, Undefined}

\* C17: in every accessor a rejected store read, a stale entry, an absent
\* entry and a disabled cache are a cache miss: the accessor goes on to the
\* remote fetch and returns what it fetched, never an error or null.
C17_MissFallsThrough == \A p \in Pids : Missed(calls[p]) => FellThrough(calls[p])

\* C17, for a stale entry, an absent entry and a disabled cache in the
\* accessors other than myPhoto, and for a stale entry in myPhoto
C17_StaleAbsentDisabled ==
  \A p \in Pids :
    /\ Missed(calls[p])
    /\ calls[p].cond # "readFail"
    /\ (calls[p].name = "myPhoto" => calls[p].cond = "stale")
    => FellThrough(calls[p])

\* myPhoto found nothing in the store, the remote end answered, and null
\* was returned
C17_Witness ==
  \E p \in Pids :
    /\ calls[p].name = "myPhoto"
    /\ Missed(calls[p])
    /\ calls[p].cond = "absent"
    /\ calls[p].fetched.type = "meta"
    /\ calls[p].outcome.got = <<Null>>

\* the category's invalidationPeriod when it is non-zero, else the default
EffectivePeriod(name) ==
  IF config.category[CategoryOf(name)].invalidationPeriod # 0
    THEN config.category[CategoryOf(name)].invalidationPeriod
    ELSE config.defaultInvalidationPeriod

\* C18: every accessor trusts a cached item with timeCached = T read at
\* time `now` iff now - T < P, P being the effective period of its
\* category; so a read at T + P - 1 is fresh, and reads at T + P and at
\* T + P + 1 are stale.
C18_Freshness ==
  \A p \in Pids :
    calls[p].cond \in {"fresh", "stale"} =>
      (calls[p].cond = "fresh" <=>
         calls[p].readAt - calls[p].found.timeCached < EffectivePeriod(calls[p].name))

\* an item written under a period of its category was read at exactly
\* T + P and found stale
C18_Witness ==
  \E p \in Pids :
    /\ calls[p].cond = "stale"
    /\ config.category[CategoryOf(calls[p].name)].invalidationPeriod # 0
    /\ calls[p].readAt - calls[p].found.timeCached = EffectivePeriod(calls[p].name)

\* the store and the key an accessor keeps its item under
StoreOf(a) ==
  CASE a.name = "getGroup" -> "groups"
    [] a.name = "getUserPresence" -> "presence"
    [] a.name = "getDriveItemByQuery" -> "fileQueries"
    [] a.name = "getPersonCardGraphData" -> "cardState"
    [] a.name \in {"getUserPhoto", "myPhoto"} -> "users"

KeyOf(a) ==
  IF a.name = "myPhoto" \/ (a.name = "getUserPresence" /\ a.arg = Undefined)
    THEN "me" ELSE a.arg.value

-----------------------------------------------------------------------------
(***************************************************************************)
(* Properties of the store contract (specification StoreSpec).             *)
(***************************************************************************)

-----------------------------------------------------------------------------
(***************************************************************************)
(* Further properties of Batch (specification Spec).                       *)
(***************************************************************************)

\* the seconds request i was told to wait by the 429 the step gives it: the
\* header's integer, 1 when the header is missing, is a date or is 0
AskedSeconds(i) == IF owed'[i + 1] = 0 THEN 1 ELSE owed'[i + 1]

\* the greatest element of a set of naturals, 0 for the empty set
Greatest(S) == IF S = {} THEN 0 ELSE CHOOSE m \in S : \A x \in S : x <= m

\* C23: a round leaves in retryAfter the maximum, over its 429 sub-responses,
\* of the Retry-After integer (1 when the header is missing, unparsable or
\* 0), and 0 when it had no 429; the throttled ids are not in the map the
\* round returns; the next round delays for that many seconds, and the delay
\* resets retryAfter to 0, so that no delay is made unless a 429 came since.
C23_RetryDelay ==
  /\ [][Resolves =>
          /\ retryAfter' = Greatest({AskedSeconds(i) : i \in ThrottledNow})
          /\ \A i \in ThrottledNow :
               /\ Req(i).id \notin DOMAIN ret'.value
               /\ Req(i).id \notin DOMAIN responsesAll']_vars
  /\ [](epc = "delay" => retryAfter > 0 /\ timerMs = retryAfter * MsPerSecond)
  /\ [][epc = "delay" /\ epc' # "delay" => retryAfter' = 0]_vars
  /\ [][epc # "delay" /\ epc' = "delay" => retryAfter' = retryAfter \/ Resolves]_vars
  /\ [](epc = "post" => retryAfter = 0)

\* the round after one that throttled a request asking for 3 seconds and one
\* without a usable Retry-After header waits 3 seconds
C23_Witness ==
  /\ epc = "delay"
  /\ timerMs = 3000
  /\ \E i, j \in QueueSet :
       /\ fate[i + 1] = "throttled" /\ owed[i + 1] = 3
       /\ fate[j + 1] = "throttled" /\ owed[j + 1] = 0

\* the step is a get()
Gets1 == nextIndex' = nextIndex + 1

\* C24: get(id, resource, scopes, headers) appends one request to
\* allRequests and its index to the back of requestsQueue, appends scopes to
\* the accumulated scopes without deduplication, issues no transport call
\* and leaves retryAfter, the earlier requests and the earlier queue entries
\* as they were; no other step adds a request or a scope.
C24_GetOnlyEnqueues ==
  [][/\ Gets1 =>
          /\ Len(allRequests') = Len(allRequests) + 1
          /\ SubSeq(allRequests', 1, Len(allRequests)) = allRequests
          /\ allRequests'[Len(allRequests')] =
               [index |-> nextIndex, id |-> FreshId(nextIndex),
                resource |-> ResourceFor(nextIndex), method |-> "GET",
                headers |-> Undefined]
          /\ requestsQueue' = requestsQueue \o <<nextIndex>>
          /\ scopes' = scopes \o ScopesFor(nextIndex)
          /\ retryAfter' = retryAfter
          /\ <<pc, epc, timerMs, posted, responsesAll>>' =
               <<pc, epc, timerMs, posted, responsesAll>>
          /\ hist'.posts = hist.posts
     /\ ~Gets1 => allRequests' = allRequests /\ scopes' = scopes]_vars

\* a get() made while executeAll() waits out a Retry-After added the same
\* scope a second time behind the throttled request, retryAfter still set
C24_Witness ==
  /\ pc = "all" /\ epc = "delay"
  /\ used.lateGets = 1
  /\ retryAfter = 3
  /\ scopes = <<"Group.Read.All", "Group.Read.All">>
  /\ requestsQueue = <<0, 1>>
  /\ posted = <<>>

\* the ids of the requests of the call in progress, or of the last call
MineIds == {Req(i).id : i \in hist.mine}

\* the requests whose transport call rejected
Lost == {i \in Indices : fate[i + 1] = "lost"}

\* C25: when the transport call of a round rejects, the requests of that
\* round are not put back in the queue and what executeAll() had merged in
\* earlier rounds is not returned; a later executeNext()/executeAll() sends
\* and returns only requests that were still pending when it began (or were
\* added while it ran), never a lost request or an earlier result.
C25_LostForGood ==
  /\ [](\A i \in Lost :
          /\ i \notin QueueSet
          /\ i \notin PostedIndices
          /\ Req(i).id \notin DOMAIN ret.value
          /\ Req(i).id \notin DOMAIN responsesAll)
  /\ [][hist'.rejectedWith # "" =>
          /\ requestsQueue' = requestsQueue
          /\ ret'.value = EmptyMap
          /\ responsesAll' = EmptyMap]_vars
  /\ [](used.rejects > 0 /\ ~ret.threw =>
          /\ hist.mine \cap Lost = {}
          /\ PostedIndices \subseteq hist.mine
          /\ DOMAIN ret.value \subseteq MineIds
          /\ DOMAIN responsesAll \subseteq MineIds)

\* executeAll() rejected in its second round, after it had merged twenty
\* responses; the executeNext() that followed returned the one request that
\* was pending, and neither the lost request nor the twenty results
C25_Witness ==
  /\ used.rejects = 1
  /\ ret.call = "next" /\ ~ret.threw
  /\ Cardinality(DOMAIN ret.value) = 1
  /\ Lost # {}
  /\ Cardinality({i \in Indices : fate[i + 1] = "ok"}) = 21

\* the requests whose last answer was 429
Throttled == {i \in Indices : fate[i + 1] = "throttled"}

\* C26: every request that received 429 in a round is in the very next
\* transport call of the Batch, all of them together at the head of the
\* composite request, before any request that was never sent.
C26_RetriedNext ==
  epc = "post" =>
    /\ Throttled \subseteq PostedIndices
    /\ \A k \in 1..Len(posted) :
         PostedSeq[k] \in Throttled => \A j \in 1..k : PostedSeq[j] \in Throttled

\* the transport call after a round that throttled two requests carries both
\* at its head, followed by a request that was never sent
C26_Witness ==
  /\ epc = "post"
  /\ Len(posted) >= 3
  /\ PostedSeq[1] \in Throttled
  /\ PostedSeq[2] \in Throttled
  /\ fate[PostedSeq[3] + 1] = "pending"
  /\ used.lateGets = 0

\* no element of seq occurs in it twice
Injective(seq) == \A j, k \in 1..Len(seq) : seq[j] = seq[k] => j = k

\* C27: allRequests[i].index = i for every i, nextIndex is the length of
\* allRequests, no index occurs twice in requestsQueue, and no request is
\* twice in one transport call (the endpoint answering each sub-request once).
C27_Indices ==
  /\ \A i \in 0..(Len(allRequests) - 1) : Req(i).index = i
  /\ nextIndex = Len(allRequests)
  /\ Injective(requestsQueue)
  /\ Injective([k \in 1..Len(posted) |-> posted[k].id])
  /\ \A k \in 1..Len(posted) : PostedSeq[k] \notin QueueSet

\* twenty-two requests were added; two of the first round were throttled and
\* stand once each at the head of the queue, ahead of the two never sent
C27_Witness ==
  /\ nextIndex = 22
  /\ epc = "delay"
  /\ Len(requestsQueue) = 4
  /\ {requestsQueue[1], requestsQueue[2]} = Throttled
  /\ Cardinality(Throttled) = 2

-----------------------------------------------------------------------------
(***************************************************************************)
(* Further properties of the page iterator (specification PageSpec).       *)
(***************************************************************************)

\* the request of the next() of iterator id rejects in this step
RejectsNow(id) == inflight[id].sent /\ pageLog'[id].received = Failure

\* C28: when the page request of next() rejects, next() rejects, the
\* iterator's value, nextLink and hasNext are what they were before the
\* call, and a next() called again sends the same request.
C28_RejectionKeepsState ==
  /\ [][\A id \in IterIds :
          RejectsNow(id) =>
            /\ pageLog'[id].last = "threw"
            /\ iterators'[id].value = iterators[id].value
            /\ nextLinkGetter(iterators'[id]) = nextLinkGetter(iterators[id])
            /\ hasNext(iterators'[id]) = hasNext(iterators[id])
            /\ hasNext(iterators'[id])]_vars
  /\ [](\A id \in IterIds :
          pageLog[id].last = "threw" /\ inflight[id].sent =>
            /\ Len(pageLog[id].requests) >= 2
            /\ pageLog[id].requests[Len(pageLog[id].requests)] =
                 pageLog[id].requests[Len(pageLog[id].requests) - 1])

\* next() fetched a second page, then rejected on the third; the next()
\* called again awaits the request for the third page
C28_Witness ==
  /\ pageLog["live"].last = "threw"
  /\ pageLog["live"].calls = 2
  /\ inflight["live"].sent
  /\ inflight["live"].resource # Undefined
  /\ Len(iterators["live"].value) >= 2
  /\ Len(pageLog["live"].requests) = 4

-----------------------------------------------------------------------------
(***************************************************************************)
(* Properties of the accessors of lists (specification ListSpec).          *)
(***************************************************************************)

\* the call ended, having found no fresh entry with the cache enabled, and
\* with every remote request of it answered
FetchedAfterMiss(c) ==
  /\ c.pc = "done" /\ ~c.outcome.threw
  /\ c.enabled
  /\ c.cond \in {"absent", "stale"}
  /\ c.fetches > 0 /\ ~c.remoteFailed

\* the store the call read holds, under the key it read, an entry written
\* since that read
WrittenBack(c) ==
  /\ c.readKey.key \in DOMAIN stores[c.readKey.store]
  /\ stores[c.readKey.store][c.readKey.key].timeCached >= c.readAt

\* the call read an entry younger than the period of its category that
\* holds as many results as the call asks for
FoundFresh(c) ==
  /\ c.cond \in {"fresh", "stale"}
  /\ c.readAt - c.found.timeCached < EffectivePeriod(c.name)
  /\ "top" \in DOMAIN c.found => c.found.top >= c.arg.top

\* getUserInsightsFiles, and findGroups for specific group types
WritesElsewhereOrNever(c) ==
  \/ c.name = "getUserInsightsFiles"
  \/ c.name = "findGroups" /\ ~HasElement(c.arg.groupTypes, "any")

\* C21: with the cache enabled, an accessor call that missed the cache and
\* whose remote requests succeeded leaves its result in the store under the
\* key it read, and a call that finds an entry younger than the period
\* there makes no remote request; for every cached accessor.
C21_WriteBack ==
  \A p \in Pids :
    /\ FetchedAfterMiss(calls[p]) => WrittenBack(calls[p])
    /\ FoundFresh(calls[p]) => calls[p].fetches = 0

\* C21, for the accessors other than getUserInsightsFiles and findGroups
\* with specific group types
C21_OthersWriteBack ==
  \A p \in Pids :
    ~WritesElsewhereOrNever(calls[p]) =>
      /\ FetchedAfterMiss(calls[p]) => WrittenBack(calls[p])
      /\ FoundFresh(calls[p]) => calls[p].fetches = 0

\* getUserInsightsFiles fetched and wrote; the same call made later, within
\* the period, with no clearStore between, found nothing under its key and
\* fetched again
C21_Witness ==
  \E p, q \in Pids :
    /\ p # q
    /\ calls[p].name = "getUserInsightsFiles" /\ calls[q].name = "getUserInsightsFiles"
    /\ calls[p].pc = "done" /\ calls[p].storeOps = 2 /\ ~calls[p].remoteFailed
    /\ <<"insightfileLists", "/me/insights/shared">> \in DOMAIN cacheLog.lastPut
    /\ cacheLog.lastPut[<<"insightfileLists", "/me/insights/shared">>].by = p
    /\ calls[q].cond = "absent"
    /\ calls[q].readAt > cacheLog.lastPut[<<"insightfileLists", "/me/insights/shared">>].at
    /\ calls[q].readAt - cacheLog.lastPut[<<"insightfileLists", "/me/insights/shared">>].at
         < EffectivePeriod("getUserInsightsFiles")
    /\ calls[q].fetches = 2
    /\ calls[q].pc = "done"

\* C29: an accessor writes to the cache store only after its remote fetch
\* succeeded: a call of which a remote request failed makes no putValue.
C29_WritesOnlyAfterSuccess ==
  \A p \in Pids : calls[p].remoteFailed => calls[p].await.kind # "putValue"

\* C29, for getGroup, findGroups and findGroupsFromGroup
C29_GroupsWriteAfterSuccess ==
  \A p \in Pids :
    calls[p].name \in {"getGroup", "findGroups", "findGroupsFromGroup"} =>
      (calls[p].remoteFailed => calls[p].await.kind # "putValue")

\* getMyInsightsFiles wrote an empty list after its request failed, and the
\* same call made within the period was given that empty list from the store
C29_Witness ==
  \E p, q \in Pids :
    /\ p # q
    /\ calls[p].name = "getMyInsightsFiles" /\ calls[q].name = "getMyInsightsFiles"
    /\ calls[p].remoteFailed /\ calls[p].pc = "done"
    /\ <<"insightfileLists", "/me/insights/shared">> \in DOMAIN cacheLog.lastPut
    /\ cacheLog.lastPut[<<"insightfileLists", "/me/insights/shared">>].by = p
    /\ cacheLog.lastPut[<<"insightfileLists", "/me/insights/shared">>].item.files = <<>>
    /\ calls[q].cond = "fresh"
    /\ calls[q].fetches = 0
    /\ calls[q].outcome.got = <<List(<<>>)>>

\* the call is a group query that returned
GroupsReturned(c) ==
  /\ c.name \in {"findGroups", "findGroupsFromGroup"}
  /\ c.pc = "done" /\ ~c.outcome.threw

\* C30: findGroups and findGroupsFromGroup return at most `top` groups, also
\* when the answer is served from a fresh cached query whose stored top is
\* greater than or equal to the requested top.
C30_AtMostTop ==
  \A p \in Pids :
    GroupsReturned(calls[p]) =>
      Len(calls[p].outcome.got[1].value) <= calls[p].arg.top

\* C30, for the queries for any group type that are answered by the remote
\* end or from an entry stored for the same top
C30_SameTopOrRemote ==
  \A p \in Pids :
    (/\ GroupsReturned(calls[p])
     /\ HasElement(calls[p].arg.groupTypes, "any")
     /\ calls[p].cond = "fresh" => calls[p].found.top = calls[p].arg.top)
    => Len(calls[p].outcome.got[1].value) <= calls[p].arg.top

\* findGroupsFromGroup, asked for one group, returned the two groups of the
\* entry stored by a call that asked for two
C30_Witness ==
  \E p \in Pids :
    /\ calls[p].name = "findGroupsFromGroup"
    /\ calls[p].arg.top = 1
    /\ calls[p].cond = "fresh"
    /\ calls[p].found.top = 2
    /\ calls[p].outcome.got = <<List(<<"g1", "g2">>)>>

-----------------------------------------------------------------------------
(***************************************************************************)
(* Properties of chainMiddleware (specification ChainSpec).                *)
(***************************************************************************)

\* the arguments the statement is about: middleware only (none at all
\* included), or undefined alone
ChainInput(middleware) ==
  \/ \A k \in 1..Len(middleware) : middleware[k].type = "middleware"
  \/ Len(middleware) = 1 /\ middleware[1].type = "undefined"

\* the setNext calls of a chain linked in order: one per middleware that has
\* a successor and a setNext, with its immediate successor, first to last
LinkedInOrder(middleware) ==
  SelectSeq([k \in 1..(Len(middleware) - 1) |->
               [on |-> middleware[k], next |-> middleware[k + 1]]],
            LAMBDA l : l.on.setNext)

\* C22: called with middleware m0..mn, with nothing, or with undefined,
\* chainMiddleware does not throw and returns its first argument (undefined
\* when there is none); the setNext calls it makes are, at every point, the
\* first calls of the chain linked in order, and when it returns they are
\* exactly that chain: mi.setNext(m(i+1)) once for every i < n whose mi has a
\* setNext, and no other call.
C22_ChainedInOrder ==
  ChainInput(chain.middleware) =>
    /\ chain.outcome.kind # "threw"
    /\ Len(chain.links) <= Len(LinkedInOrder(chain.middleware))
    /\ chain.links = SubSeq(LinkedInOrder(chain.middleware), 1, Len(chain.links))
    /\ chain.pc = "done" =>
         /\ chain.outcome.kind = "returned"
         /\ chain.outcome.value = chain.rootMiddleware
         /\ chain.rootMiddleware.type =
              (IF Len(chain.middleware) = 0 THEN "undefined" ELSE chain.middleware[1].type)
         /\ Len(chain.middleware) > 0 => chain.rootMiddleware = chain.middleware[1]
         /\ chain.links = LinkedInOrder(chain.middleware)

\* three middleware with a setNext each were chained: two calls were made
C22_Witness ==
  /\ chain.pc = "done"
  /\ Len(chain.middleware) = 3
  /\ \A k \in 1..3 : chain.middleware[k].type = "middleware" /\ chain.middleware[k].setNext
  /\ chain.outcome.kind = "returned"
  /\ chain.outcome.value = chain.middleware[1]
  /\ Len(chain.links) = 2
====
